---- MODULE Spec2Model ----
(***************************************************************************)
(* Model of the exofile table engine: key lookup (Table.get_index,         *)
(* Table.by_pl_name), the cell-level merge (ExoFile.replace_with) and the  *)
(* error-group masking (ExoFile.mask_no_errors, ExoFile.mask_zero_errors). *)
(*                                                                         *)
(* Strings are sequences of one-character strings, so that the substring   *)
(* search of MaskedColumn.find is computed and not assumed.  Row positions *)
(* are 0-based, as in numpy.  A cell is [present, value]: value is the     *)
(* datum stored under the mask, a rational <<numerator, denominator>>.     *)
(***************************************************************************)
EXTENDS Integers, Sequences, FiniteSets, TLC

VARIABLES
    keyTable,       \* key column (pl_name) of the table a lookup runs on
    keyTablePre,    \* the same column before the last lookup
    lookupOp,       \* "none", "get_index" or "by_pl_name"
    lookupArgs,     \* the names passed to the last lookup (*plName)
    lookupResult,   \* what the last lookup returned or raised
    target,         \* the table replace_with is called on (self)
    targetPre,      \* target before the last call of replace_with
    source,         \* the caller's table passed to replace_with (other)
    mergeCalls,     \* calls of replace_with(target, source) made so far
    mergeOutcome,   \* "ok", or the exception the last call raised
    mergeWarnings,  \* the warnings the last call emitted, in order
    errTable,       \* the table the masking methods are called on
    errTablePre,    \* errTable before the last masking call
    maskOp,         \* "none", "mask_no_errors" or "mask_zero_errors"
    maskExt,        \* err_ext of the last masking call
    left,           \* the table complete is called on (self)
    right,          \* the table passed to complete
    completeOp,     \* join_type and add_col of the last call of complete
    completeOut,    \* the table the last call of complete returned
    psDefault,      \* compose_from_ps: the default-flag rows at loop entry
    poolInit,       \* compose_from_ps: the sorted candidates at loop entry
    psTbl,          \* compose_from_ps: the accumulator (ps_tbl)
    grouped,        \* compose_from_ps: the candidates still in the pool
    passes,         \* compose_from_ps: passes of the loop executed (i)
    composePc,      \* compose_from_ps: "loop" or "returned"
    updateArgs,     \* ExoFile.update: its flag and what its steps produce
    updateOutcome,  \* ExoFile.update: what the call returned or raised
    mapping,        \* format_ps_table: the rows of the mapping CSV
    psRaw,          \* format_ps_table: the table passed in
    formatOutcome,  \* format_ps_table: what the call returned or raised
    loadEnv,        \* ExoFile.load: its arguments and what each source gives
    loadOutcome,    \* ExoFile.load: what the call returned or raised
    scriptPc,       \* update_file: the line the script is at
    scriptNew,      \* update_file: what each call of update gave
    files,          \* update_file: the content of the two output files
    legacyNew,      \* MasterFile.update: the value table (new)
    refTable,       \* MasterFile.update: the reference table (ref_table)
    legacyGrouped,  \* MasterFile.update: the candidates still in the pool
    legacyPc        \* MasterFile.update: "start", "loop" or "returned"

indexVars == <<keyTable, keyTablePre, lookupOp, lookupArgs, lookupResult>>

mergeVars == <<target, targetPre, source, mergeCalls, mergeOutcome,
               mergeWarnings>>

maskVars == <<errTable, errTablePre, maskOp, maskExt>>

completeVars == <<left, right, completeOp, completeOut>>

composeVars == <<psDefault, poolInit, psTbl, grouped, passes, composePc>>

updateVars == <<updateArgs, updateOutcome>>

formatVars == <<mapping, psRaw, formatOutcome>>

loadVars == <<loadEnv, loadOutcome>>

scriptVars == <<scriptPc, scriptNew, files>>

legacyVars == <<legacyNew, refTable, legacyGrouped, legacyPc>>

vars == <<indexVars, mergeVars, maskVars, completeVars, composeVars,
          updateVars, formatVars, loadVars, scriptVars, legacyVars>>

(***************************************************************************)
(* Bounds of the model.                                                    *)
(***************************************************************************)
MaxKeys == 3        \* rows of a table in the lookup specification
MaxQuery == 2       \* names passed to one lookup
MaxRowsT == 2       \* rows of the target of a merge
MaxRowsS == 2       \* rows of the source of a merge
MaxCalls == 2       \* successive calls of replace_with with the same source
MaxRowsM == 2       \* rows of a table whose error groups are masked

(***************************************************************************)
(* Sequences                                                               *)
(***************************************************************************)
Range(s) == {s[i] : i \in 1..Len(s)}

IsInjective(s) == \A i, j \in 1..Len(s) : s[i] = s[j] => i = j

SeqsUpTo(S, n) == UNION {[1..k -> S] : k \in 0..n}

\* Table.remove_row: s without its p-th element (1-based).
RECURSIVE RemoveAt(_, _)
RemoveAt(s, p) ==
    IF s = <<>> THEN <<>>
    ELSE IF p = 1 THEN Tail(s)
    ELSE <<Head(s)>> \o RemoveAt(Tail(s), p - 1)

(***************************************************************************)
(* Object names.  "HD 1 b" is written <<"1","b">>: what matters to the     *)
(* lookup is which name is contained in which.                             *)
(***************************************************************************)
KeyNames == { <<"1", "b">>, <<"1", "c">>, <<"2", "b">>, <<"1">> }

\* numpy.core.defchararray.find(str_array, sub) != -1, for one element.
Contains(str, sub) ==
    \E i \in 1..(Len(str) - Len(sub) + 1) :
        SubSeq(str, i, i + Len(sub) - 1) = sub

\* MaskedColumn.find(sub)[0]: the 0-based positions of the keys containing sub.
FindPositions(keys, sub) ==
    SelectSeq([i \in 1..Len(keys) |-> i - 1],
              LAMBDA p : Contains(keys[p + 1], sub))

\* MaskedColumn.find(sub)[1]: the keys containing sub.
FindValues(keys, sub) == SelectSeq(keys, LAMBDA k : Contains(k, sub))

(***************************************************************************)
(* Table.get_index                                                         *)
(***************************************************************************)
Found(position) ==
    [kind |-> "ok", position |-> position, message |-> "", values |-> <<>>]

Raised(kind, message, values) ==
    [kind |-> kind, position |-> <<>>, message |-> message, values |-> values]

(***************************************************************************)
(* Each specification below runs one part of the program and keeps the     *)
(* variables of the other parts at these values.                           *)
(***************************************************************************)
IndexIdle ==
    /\ keyTable = <<>>
    /\ keyTablePre = <<>>
    /\ lookupOp = "none"
    /\ lookupArgs = <<>>
    /\ lookupResult = Found(<<>>)

EmptyTable == [keys |-> <<>>, colnames |-> <<>>, unit |-> <<>>, rows |-> <<>>]

MergeIdle ==
    /\ target = EmptyTable
    /\ targetPre = EmptyTable
    /\ source = EmptyTable
    /\ mergeCalls = 0
    /\ mergeOutcome = "ok"
    /\ mergeWarnings = <<>>

MaskIdle ==
    /\ errTable = [colnames |-> <<>>, rows |-> <<>>]
    /\ errTablePre = [colnames |-> <<>>, rows |-> <<>>]
    /\ maskOp = "none"
    /\ maskExt = <<>>

NoTable == [keys |-> <<>>, colnames |-> <<>>, rows |-> <<>>]

\* No call of complete yet; join_type and add_col at their defaults.
NoComplete == [called |-> FALSE, joinType |-> "left", addCol |-> TRUE]

CompleteIdle ==
    /\ left = NoTable
    /\ right = NoTable
    /\ completeOp = NoComplete
    /\ completeOut = NoTable

ComposeIdle ==
    /\ psDefault = NoTable
    /\ poolInit = NoTable
    /\ psTbl = NoTable
    /\ grouped = NoTable
    /\ passes = 0
    /\ composePc = "none"

\* No call of update yet.
NoUpdate == [called |-> FALSE, useComposite |-> TRUE, colnames |-> <<>>,
             pcCols |-> <<>>]

\* What a call gives back: "ok" and the columns of the table returned, or the
\* exception raised and no table.
Returned(colnames) == [kind |-> "ok", colnames |-> colnames]

Raises(kind) == [kind |-> kind, colnames |-> <<>>]

UpdateIdle ==
    /\ updateArgs = NoUpdate
    /\ updateOutcome = Raises("none")

\* A table of format_ps_table: its columns, their dtype kind and its rows.
NoPsTable == [colnames |-> <<>>, kind |-> <<>>, rows |-> <<>>]

\* What format_ps_table gave: "ok" or the exception raised, the table as the
\* call left it and the warnings emitted.
NoFormat == [kind |-> "none", table |-> NoPsTable, warnings |-> <<>>]

FormatIdle ==
    /\ mapping = <<>>
    /\ psRaw = NoPsTable
    /\ formatOutcome = NoFormat

\* A file or a sheet as a call finds it: readable or not, and its table.
Unreadable == [ok |-> FALSE, table |-> EmptyTable]

Readable(tbl) == [ok |-> TRUE, table |-> tbl]

\* The arguments of ExoFile.load and what its sources answer.
NoLoadEnv ==
    [query |-> FALSE, debug |-> "None", queryDebug |-> "False",
     remote |-> "ok", remoteTable |-> EmptyTable, exofile |-> Unreadable,
     sheet |-> Unreadable, customFile |-> Unreadable]

\* What load or query gave: "ok" or the exception raised, the table
\* returned and the warnings emitted.
LoadResult(kind, tbl, warnings) ==
    [kind |-> kind, table |-> tbl, warnings |-> warnings]

LoadIdle ==
    /\ loadEnv = NoLoadEnv
    /\ loadOutcome = LoadResult("none", EmptyTable, <<>>)

\* The table the output files hold before the script runs.
PreviousFile == <<"previous">>

NoFiles == [main |-> PreviousFile, alt |-> PreviousFile]

NotCalled == [main |-> Raises("none"), alt |-> Raises("none")]

ScriptIdle ==
    /\ scriptPc = "none"
    /\ scriptNew = NotCalled
    /\ files = NoFiles

LegacyIdle ==
    /\ legacyNew = NoTable
    /\ refTable = NoTable
    /\ legacyGrouped = NoTable
    /\ legacyPc = "none"

\* The parts a specification does not run stay as they are.
IdleBut(part) ==
    /\ part = "index" \/ IndexIdle
    /\ part = "merge" \/ MergeIdle
    /\ part = "mask" \/ MaskIdle
    /\ part = "complete" \/ CompleteIdle
    /\ part = "compose" \/ ComposeIdle
    /\ part = "update" \/ UpdateIdle
    /\ part = "format" \/ FormatIdle
    /\ part = "load" \/ LoadIdle
    /\ part = "script" \/ ScriptIdle
    /\ part = "legacy" \/ LegacyIdle

UnchangedBut(part) ==
    /\ IF part = "index" THEN TRUE ELSE UNCHANGED indexVars
    /\ IF part = "merge" THEN TRUE ELSE UNCHANGED mergeVars
    /\ IF part = "mask" THEN TRUE ELSE UNCHANGED maskVars
    /\ IF part = "complete" THEN TRUE ELSE UNCHANGED completeVars
    /\ IF part = "compose" THEN TRUE ELSE UNCHANGED composeVars
    /\ IF part = "update" THEN TRUE ELSE UNCHANGED updateVars
    /\ IF part = "format" THEN TRUE ELSE UNCHANGED formatVars
    /\ IF part = "load" THEN TRUE ELSE UNCHANGED loadVars
    /\ IF part = "script" THEN TRUE ELSE UNCHANGED scriptVars
    /\ IF part = "legacy" THEN TRUE ELSE UNCHANGED legacyVars

\* A plausible slip: take the first match instead of requiring a single one.
GetIndexOneFirstMatch(keys, pl) ==
    LET found == FindPositions(keys, pl)
    IN  IF Len(found) >= 1
        THEN Found(<<found[1]>>)
        ELSE Raised("ValueError", "Unkonwn planet", <<pl>>)

\* One turn of the loop of get_index: int(find(pl)[0]) is the position when
\* find returns exactly one, and a TypeError otherwise, which the handler
\* turns into a ValueError.
GetIndexOne(keys, pl) ==
    LET found == FindPositions(keys, pl)
        values == FindValues(keys, pl)
    IN  IF Len(found) = 1
        THEN Found(<<found[1]>>)
        ELSE IF values # <<>>
        THEN Raised("ValueError", "Incomplete name. Possible values", values)
        ELSE Raised("ValueError", "Unkonwn planet", <<pl>>)

\* get_index(*plName): positions in the order of the names; the first name
\* that does not resolve raises and nothing is returned.
RECURSIVE GetIndex(_, _)
GetIndex(keys, plName) ==
    IF plName = <<>> THEN Found(<<>>)
    ELSE LET one == GetIndexOne(keys, Head(plName))
         IN  IF one.kind # "ok" THEN one
             ELSE LET rest == GetIndex(keys, Tail(plName))
                  IN  IF rest.kind # "ok" THEN rest
                      ELSE Found(one.position \o rest.position)

(***************************************************************************)
(* Table.by_pl_name                                                        *)
(***************************************************************************)
\* The table after by_pl_name: the row is removed when remove is set and a
\* single position was found.
ByPlNameTable(keys, plName, remove) ==
    LET res == GetIndex(keys, plName)
    IN  IF res.kind = "ok" /\ remove /\ Len(res.position) = 1
        THEN RemoveAt(keys, res.position[1] + 1)
        ELSE keys

\* What by_pl_name returns: the rows at the positions found (here their keys).
ByPlNameResult(keys, plName) ==
    LET res == GetIndex(keys, plName)
    IN  IF res.kind = "ok"
        THEN [res EXCEPT !.values = [i \in 1..Len(res.position) |->
                                        keys[res.position[i] + 1]]]
        ELSE res

(***************************************************************************)
(* Values and units                                                        *)
(***************************************************************************)
RECURSIVE GCD(_, _)
GCD(a, b) == IF b = 0 THEN a ELSE GCD(b, a % b)

\* The rational n/d in lowest terms (n >= 0, d > 0).
Rat(n, d) == LET g == GCD(n, d) IN <<n \div g, d \div g>>

RatMul(a, b) == Rat(a[1] * b[1], a[2] * b[2])

NoUnit == "None"

\* astropy's Unit.to(other), as replace_with calls it: the factor between two
\* units of the same physical type, UnitConversionError between others.
UnitTo(from, to) ==
    IF from = to THEN [ok |-> TRUE, factor |-> Rat(1, 1)]
    ELSE IF from = "d" /\ to = "s" THEN [ok |-> TRUE, factor |-> Rat(86400, 1)]
    ELSE IF from = "s" /\ to = "d" THEN [ok |-> TRUE, factor |-> Rat(1, 86400)]
    ELSE [ok |-> FALSE, factor |-> Rat(0, 1)]

(***************************************************************************)
(* Tables: the key column pl_name (keys), the other columns in order       *)
(* (colnames), the unit of each and one function column -> cell per row.   *)
(***************************************************************************)
Present(v) == [present |-> TRUE, value |-> v]
Masked(v) == [present |-> FALSE, value |-> v]

NRows(tbl) == Len(tbl.keys)

HasColumn(tbl, c) == c \in Range(tbl.colnames)

\* Table.add_row({"pl_name": name}) on a masked table: the key, and every
\* other column masked.
AddRow(tbl, name) ==
    [tbl EXCEPT !.keys = Append(@, name),
                !.rows = Append(@, [c \in Range(tbl.colnames) |->
                                        Masked(Rat(0, 1))])]

RECURSIVE AddRows(_, _)
AddRows(tbl, names) ==
    IF names = <<>> THEN tbl
    ELSE AddRows(AddRow(tbl, Head(names)), Tail(names))

(***************************************************************************)
(* ExoFile.replace_with                                                    *)
(***************************************************************************)
\* With copy=False the columns would be shared with the caller's table.
CallerSourceShared(src, other) == other

\* other = ExoFile(other, copy=True, masked=True): what the function does to
\* its copy (the units it adopts) is not done to the caller's table.
CallerSource(src, other) == src

\* A plausible slip: the two diagnostics exchanged.
UnitWarningSwapped(tbl, other, c) ==
    IF other.unit[c] = tbl.unit[c] THEN <<>>
    ELSE IF other.unit[c] = NoUnit
    THEN <<[kind |-> "ColUnitsWarning", col |-> c]>>
    ELSE <<[kind |-> "NoUnitsWarning", col |-> c]>>

UnitWarning(tbl, other, c) ==
    IF other.unit[c] = tbl.unit[c] THEN <<>>
    ELSE IF other.unit[c] = NoUnit
    THEN <<[kind |-> "NoUnitsWarning", col |-> c]>>
    ELSE <<[kind |-> "ColUnitsWarning", col |-> c]>>

RECURSIVE UnitWarnings(_, _, _)
UnitWarnings(tbl, other, cols) ==
    IF cols = <<>> THEN <<>>
    ELSE UnitWarning(tbl, other, Head(cols))
            \o UnitWarnings(tbl, other, Tail(cols))

\* The loop over other.keys() that saves the units of self: it stops with a
\* KeyError at the first column self does not have.  The key column has no
\* unit on either side and passes silently.
ReconcileUnits(tbl, other) ==
    LET cols == other.colnames
        missing == {i \in 1..Len(cols) : ~HasColumn(tbl, cols[i])}
        upto == IF missing = {} THEN Len(cols)
                ELSE (CHOOSE i \in missing : \A k \in missing : i <= k) - 1
        seen == {cols[i] : i \in 1..upto}
    IN  [outcome |-> IF missing = {} THEN "ok" ELSE "KeyError",
         units |-> [c \in seen |-> tbl.unit[c]],
         other |-> [other EXCEPT !.unit =
                        [c \in Range(cols) |->
                            IF c \in seen /\ other.unit[c] = NoUnit
                            THEN tbl.unit[c] ELSE other.unit[c]]],
         warnings |-> UnitWarnings(tbl, other, SubSeq(cols, 1, upto))]

\* other[index == -1]["pl_name"]: the names get_index answered -1 for.
MissingNames(other, index) ==
    LET at == SelectSeq([i \in 1..Len(index) |-> i],
                        LAMBDA i : index[i] = -1)
    IN  [k \in 1..Len(at) |-> other.keys[at[k]]]

\* A plausible slip: every column of the row, masked or not.
NotMaskedKeysAll(other, i) == other.colnames

\* The columns of row i of other that are not masked, the key removed.
NotMaskedKeys(other, i) ==
    SelectSeq(other.colnames, LAMBDA c : other.rows[i][c].present)

\* A plausible slip: the value is written without its unit being converted.
NewValueUnconverted(other, units, i, key) ==
    [ok |-> TRUE, value |-> other.rows[i][key].value]

\* The value assigned to self[i_self][key]: the source value as it is when
\* the column of self has no unit, else times other[key].unit.to(units[key]).
NewValue(other, units, i, key) ==
    IF units[key] = NoUnit
    THEN [ok |-> TRUE, value |-> other.rows[i][key].value]
    ELSE LET conversion == UnitTo(other.unit[key], units[key])
         IN  [ok |-> conversion.ok,
              value |-> RatMul(other.rows[i][key].value, conversion.factor)]

\* A plausible slip: the column of self takes the unit of other once its
\* values are assigned.
RECURSIVE AssignKeysRelabel(_, _, _, _, _, _)
AssignKeysRelabel(tbl, other, units, i, iSelf, keys) ==
    IF keys = <<>> THEN [outcome |-> "ok", target |-> tbl]
    ELSE LET new == NewValue(other, units, i, Head(keys))
         IN  IF ~new.ok
             THEN [outcome |-> "UnitConversionError", target |-> tbl]
             ELSE AssignKeysRelabel(
                    [tbl EXCEPT !.rows[iSelf + 1][Head(keys)] =
                                    Present(new.value),
                                !.unit[Head(keys)] = other.unit[Head(keys)]],
                    other, units, i, iSelf, Tail(keys))

\* The assignments of one row of other, column after column; a failed
\* conversion raises and leaves what was assigned before it.
RECURSIVE AssignKeys(_, _, _, _, _, _)
AssignKeys(tbl, other, units, i, iSelf, keys) ==
    IF keys = <<>> THEN [outcome |-> "ok", target |-> tbl]
    ELSE LET new == NewValue(other, units, i, Head(keys))
         IN  IF ~new.ok
             THEN [outcome |-> "UnitConversionError", target |-> tbl]
             ELSE AssignKeys(
                    [tbl EXCEPT !.rows[iSelf + 1][Head(keys)] =
                                    Present(new.value)],
                    other, units, i, iSelf, Tail(keys))

\* The loop over enumerate(index), from row i of other on.
RECURSIVE AssignRows(_, _, _, _, _)
AssignRows(tbl, other, units, index, i) ==
    IF i > Len(index) THEN [outcome |-> "ok", target |-> tbl]
    ELSE LET row == AssignKeys(tbl, other, units, i, index[i],
                               NotMaskedKeys(other, i))
         IN  IF row.outcome # "ok" THEN row
             ELSE AssignRows(row.target, other, units, index, i + 1)

\* replace_with(self, other): self after the call, the caller's other after
\* the call, "ok" or the exception raised, and the warnings emitted.
ReplaceWith(tbl, src) ==
    LET rec == ReconcileUnits(tbl, src)
        other == rec.other
        result(t, outcome) ==
            [target |-> t, source |-> CallerSource(src, other),
             outcome |-> outcome, warnings |-> rec.warnings]
    IN  IF rec.outcome # "ok" THEN result(tbl, rec.outcome)
        ELSE LET first == GetIndex(tbl.keys, other.keys)
             IN  IF first.kind # "ok" THEN result(tbl, first.kind)
                 ELSE LET grown == AddRows(tbl, MissingNames(other,
                                                        first.position))
                          again == GetIndex(grown.keys, other.keys)
                      IN  IF again.kind # "ok"
                          THEN result(grown, again.kind)
                          ELSE LET done == AssignRows(grown, other, rec.units,
                                                      again.position, 1)
                               IN  result(done.target, done.outcome)

(***************************************************************************)
(* Specification of the merge                                              *)
(***************************************************************************)
MergeCols == <<"pl_orbper", "pl_bmasse">>

\* The names a merge is tried on: "1" is contained in "1b".
MergeNames == <<<<"1", "b">>, <<"1">>, <<"2", "b">>>>

\* Targets: up to MaxRowsT of the names, the period present or masked, the
\* mass present, the period in seconds, in days or without a unit.
TargetTables ==
    { [keys |-> keys, colnames |-> MergeCols,
       unit |-> [c \in Range(MergeCols) |->
                    IF c = "pl_orbper" THEN u ELSE NoUnit],
       rows |-> [i \in 1..Len(keys) |->
                    [c \in Range(MergeCols) |->
                        IF c = "pl_bmasse" THEN Present(Rat(9, 1))
                        ELSE IF hasPeriod[i] THEN Present(Rat(7, 1))
                        ELSE Masked(Rat(0, 1))]]] :
        u \in {NoUnit, "s", "d"},
        keys \in {SelectSeq(MergeNames, LAMBDA n : n \in chosen) :
                    chosen \in {c \in SUBSET Range(MergeNames) :
                                    Cardinality(c) <= MaxRowsT}},
        hasPeriod \in [1..MaxRowsT -> BOOLEAN] }

\* What a source row holds: both values, or one of them.
SourceRowKinds == {"both", "period", "mass"}

\* Sources: up to MaxRowsS rows of different names in any order; row i gives
\* the period 0.0008 * i and the mass i + 1 where it gives them.
SourceTables ==
    { [keys |-> keys, colnames |-> MergeCols,
       unit |-> [c \in Range(MergeCols) |->
                    IF c = "pl_orbper" THEN u ELSE NoUnit],
       rows |-> [i \in 1..Len(keys) |->
                    [c \in Range(MergeCols) |->
                        IF c = "pl_orbper"
                        THEN IF kinds[i] \in {"both", "period"}
                             THEN Present(Rat(8 * i, 10000))
                             ELSE Masked(Rat(5, 1))
                        ELSE IF kinds[i] \in {"both", "mass"}
                             THEN Present(Rat(i + 1, 1))
                             ELSE Masked(Rat(5, 1))]]] :
        u \in {NoUnit, "d", "s", "m"},
        keys \in {k \in SeqsUpTo(Range(MergeNames), MaxRowsS) : IsInjective(k)},
        kinds \in [1..MaxRowsS -> SourceRowKinds] }

InitMerge ==
    /\ target \in TargetTables
    /\ targetPre = target
    /\ source \in SourceTables
    /\ mergeCalls = 0
    /\ mergeOutcome = "ok"
    /\ mergeWarnings = <<>>
    /\ IdleBut("merge")

CallReplaceWith ==
    /\ mergeCalls < MaxCalls
    /\ LET res == ReplaceWith(target, source)
       IN  /\ target' = res.target
           /\ source' = res.source
           /\ mergeOutcome' = res.outcome
           /\ mergeWarnings' = res.warnings
    /\ targetPre' = target
    /\ mergeCalls' = mergeCalls + 1
    /\ UnchangedBut("merge")

NextMerge == CallReplaceWith

SpecMerge == InitMerge /\ [][NextMerge]_vars

(***************************************************************************)
(* Claims about the merge                                                  *)
(***************************************************************************)
\* The rows (1-based) of keys whose key contains name.
Matches(keys, name) == {i \in 1..Len(keys) : Contains(keys[i], name)}

\* Row r of the source resolves to row p of the target as it was before the
\* call: p is the only row whose key contains the key of r.
ResolvesTo(r, p) == Matches(targetPre.keys, source.keys[r]) = {p}

SharedCols == {c \in Range(source.colnames) : HasColumn(targetPre, c)}

KeyColumnKept ==
    /\ NRows(target) >= NRows(targetPre)
    /\ SubSeq(target.keys, 1, NRows(targetPre)) = targetPre.keys

\* C1 as stated: for every row r of the source that resolves to a row p of
\* the target and every column c, if the source cell (r, c) is masked then
\* the target cell (p, c) is after the call what it was before; the key
\* column of the target is not modified.
C1_MaskedCellLeavesTargetCell ==
    mergeCalls >= 1 =>
        /\ KeyColumnKept
        /\ \A r \in 1..NRows(source), p \in 1..NRows(targetPre), c \in SharedCols :
               (ResolvesTo(r, p) /\ ~source.rows[r][c].present)
                   => target.rows[p][c] = targetPre.rows[p][c]

\* C1 amended: a target cell (p, c) is after the call what it was before
\* when the cell c is masked in every row of the source that resolves to p
\* (at least one does); the key column of the target is not modified.
C1_MaskedInAllRowsLeavesTargetCell ==
    mergeCalls >= 1 =>
        /\ KeyColumnKept
        /\ \A p \in 1..NRows(targetPre), c \in SharedCols :
               (/\ \E r \in 1..NRows(source) : ResolvesTo(r, p)
                /\ \A r \in 1..NRows(source) :
                       ResolvesTo(r, p) => ~source.rows[r][c].present)
                   => target.rows[p][c] = targetPre.rows[p][c]

\* C1: a call has returned, having written the mass of a row and left its
\* period, masked in the source and present in the target, as it was.
C1_Witness ==
    /\ mergeCalls = 1
    /\ mergeOutcome = "ok"
    /\ \E r \in 1..NRows(source), p \in 1..NRows(targetPre) :
           /\ ResolvesTo(r, p)
           /\ ~source.rows[r]["pl_orbper"].present
           /\ source.rows[r]["pl_bmasse"].present
           /\ targetPre.rows[p]["pl_orbper"].present
           /\ target.rows[p]["pl_orbper"] = targetPre.rows[p]["pl_orbper"]
           /\ target.rows[p]["pl_bmasse"] # targetPre.rows[p]["pl_bmasse"]

\* The factor the claim C2 names: 1 between equal units and when a side has
\* no unit, else the factor from the unit of the source to that of the target.
ClaimedFactor(from, to) ==
    IF from = to \/ from = NoUnit \/ to = NoUnit THEN <<1, 1>>
    ELSE IF from = "d" /\ to = "s" THEN <<86400, 1>>
    ELSE <<1, 86400>>

ClaimedCell(r, c) ==
    [present |-> TRUE,
     value |-> RatMul(source.rows[r][c].value,
                      ClaimedFactor(source.unit[c], targetPre.unit[c]))]

\* C2 as stated: after a call that returned, for every cell (r, c) present
\* in the source, the matching target cell is present and holds the source
\* value times the conversion factor.
C2_PresentCellIsWritten ==
    (mergeCalls >= 1 /\ mergeOutcome = "ok") =>
        \A r \in 1..NRows(source), p \in 1..NRows(targetPre), c \in SharedCols :
            (ResolvesTo(r, p) /\ source.rows[r][c].present)
                => target.rows[p][c] = ClaimedCell(r, c)

\* C2 amended: the same for every source cell (r, c) that no later row of
\* the source resolving to the same target row holds present as well.
C2_LastPresentCellIsWritten ==
    (mergeCalls >= 1 /\ mergeOutcome = "ok") =>
        \A r \in 1..NRows(source), p \in 1..NRows(targetPre), c \in SharedCols :
            (/\ ResolvesTo(r, p)
             /\ source.rows[r][c].present
             /\ \A q \in (r + 1)..NRows(source) :
                    ResolvesTo(q, p) => ~source.rows[q][c].present)
                => target.rows[p][c] = ClaimedCell(r, c)

\* C2: 0.0008 d has been written as 69.12 into a column in seconds.
C2_Witness ==
    /\ mergeCalls = 1
    /\ mergeOutcome = "ok"
    /\ NRows(source) >= 1
    /\ source.unit["pl_orbper"] = "d"
    /\ targetPre.unit["pl_orbper"] = "s"
    /\ \E p \in 1..NRows(targetPre) :
           /\ ResolvesTo(1, p)
           /\ source.rows[1]["pl_orbper"] = Present(<<1, 1250>>)
           /\ ~targetPre.rows[p]["pl_orbper"].present
           /\ target.rows[p]["pl_orbper"] = Present(<<1728, 25>>)

\* C3: when the source holds a key that no key of a target with rows contains
\* (its other keys resolving, the units of both tables equal), the
\* call returns, and the target then has exactly one row with that key, a new
\* one, whose columns are masked except those the source row holds present.
C3_NewRowInserted ==
    (/\ mergeCalls = 1
     /\ NRows(targetPre) >= 1
     /\ \A c \in SharedCols : source.unit[c] = targetPre.unit[c]
     /\ \A r \in 1..NRows(source) :
            Cardinality(Matches(targetPre.keys, source.keys[r])) <= 1) =>
        \A r \in 1..NRows(source) :
            Matches(targetPre.keys, source.keys[r]) = {} =>
                /\ mergeOutcome = "ok"
                /\ \E p \in (NRows(targetPre) + 1)..NRows(target) :
                       /\ \A q \in 1..NRows(target) :
                              target.keys[q] = source.keys[r] <=> q = p
                       /\ \A c \in SharedCols :
                              target.rows[p][c].present
                                  = source.rows[r][c].present

\* C4: a second call with the same source that returns leaves the target as
\* the first call left it: same rows, values, masks and units.
C4_Idempotent ==
    (mergeCalls >= 2 /\ mergeOutcome = "ok") => target = targetPre

\* C4: a second call has returned on a target whose period was converted
\* from days to seconds by the first.
C4_Witness ==
    /\ mergeCalls = 2
    /\ mergeOutcome = "ok"
    /\ source.unit["pl_orbper"] = "d"
    /\ target.unit["pl_orbper"] = "s"
    /\ \E r \in 1..NRows(source), p \in 1..NRows(target) :
           /\ ResolvesTo(r, p)
           /\ source.rows[r]["pl_orbper"].present
           /\ target.rows[p]["pl_orbper"].value # source.rows[r]["pl_orbper"].value

GetColnamesWithError(tbl, errExt) ==
    LET withError ==
            SelectSeq(tbl.colnames,
                      LAMBDA key : \A k \in 1..Len(errExt) :
                                       Append(key, errExt[k])
                                           \in Range(tbl.colnames))
    IN  [g \in 1..Len(withError) |->
            <<withError[g]>> \o [k \in 1..Len(errExt) |->
                                    Append(withError[g], errExt[k])]]

\* self[col].mask[imask] = True for every col of cols; imask holds 0-based
\* row positions.  The data under the mask stay.
MaskRows(tbl, cols, imask) ==
    [tbl EXCEPT !.rows =
        [r \in 1..Len(tbl.rows) |->
            [c \in Range(tbl.colnames) |->
                IF c \in Range(cols) /\ (r - 1) \in imask
                THEN [tbl.rows[r][c] EXCEPT !.present = FALSE]
                ELSE tbl.rows[r][c]]]]

\* A plausible slip: mask.all(axis=-1), the rows masked in every member.
RowsMaskedInAll(tbl, cols) ==
    {r - 1 : r \in {q \in 1..Len(tbl.rows) :
                        \A c \in Range(cols) : ~tbl.rows[q][c].present}}

\* np.where(mask.any(axis=-1)): the rows masked in a member of the group.
RowsMaskedInAny(tbl, cols) ==
    {r - 1 : r \in {q \in 1..Len(tbl.rows) :
                        \E c \in Range(cols) : ~tbl.rows[q][c].present}}

\* ExoFile.mask_no_errors, from group g on.
RECURSIVE MaskNoErrorsFrom(_, _, _)
MaskNoErrorsFrom(tbl, groups, g) ==
    IF g > Len(groups) THEN tbl
    ELSE MaskNoErrorsFrom(
            MaskRows(tbl, groups[g], RowsMaskedInAny(tbl, groups[g])),
            groups, g + 1)

MaskNoErrors(tbl, errExt) ==
    MaskNoErrorsFrom(tbl, GetColnamesWithError(tbl, errExt), 1)

\* np.where(cond.any(axis=-1))[0] with cond = errors == 0.0 over the masked
\* array of cols[1:]: the rows where an error that is not masked is zero.
RowsWithZeroError(tbl, cols) ==
    {r - 1 : r \in {q \in 1..Len(tbl.rows) :
                        \E k \in 2..Len(cols) :
                            /\ tbl.rows[q][cols[k]].present
                            /\ tbl.rows[q][cols[k]].value[1] = 0}}

\* imask.any(): imask is an array of row positions, and any() is true when
\* one of them is not 0.
ImaskAny(imask) == \E i \in imask : i # 0

\* ExoFile.mask_zero_errors, from group g on.
RECURSIVE MaskZeroErrorsFrom(_, _, _)
MaskZeroErrorsFrom(tbl, groups, g) ==
    IF g > Len(groups) THEN tbl
    ELSE LET imask == RowsWithZeroError(tbl, groups[g])
         IN  MaskZeroErrorsFrom(
                IF ImaskAny(imask) THEN MaskRows(tbl, groups[g], imask)
                ELSE tbl,
                groups, g + 1)

MaskZeroErrors(tbl, errExt) ==
    MaskZeroErrorsFrom(tbl, GetColnamesWithError(tbl, errExt), 1)

(***************************************************************************)
(* Specification of the masking                                            *)
(***************************************************************************)
\* The column sets tried: a value with its two errors; a value with its
\* single error beside a value without any; a value with one error of two.
ErrLayouts ==
    { << <<"pl_orbper">>, <<"pl_orbper", "err1">>, <<"pl_orbper", "err2">> >>,
      << <<"sy_vmag">>, <<"sy_vmag", "err">>, <<"pl_orbper">> >>,
      << <<"pl_orbper">>, <<"pl_orbper", "err1">> >> }

\* err_ext: the default of the methods, and the one the pipeline also uses.
ErrExts == { <<"err1", "err2">>, <<"err">> }

ValueCells == {Present(Rat(5, 1)), Present(Rat(0, 1)), Masked(Rat(5, 1))}

ErrorCells == {Present(Rat(0, 1)), Present(Rat(1, 10)), Masked(Rat(0, 1))}

CellsOf(col) == IF Len(col) = 1 THEN ValueCells ELSE ErrorCells

ErrRows(cols) ==
    {row \in [Range(cols) -> ValueCells \cup ErrorCells] :
        \A c \in Range(cols) : row[c] \in CellsOf(c)}

ErrTablesOf(cols) ==
    UNION { { [colnames |-> cols, rows |-> rows] :
                rows \in [1..n -> ErrRows(cols)] } :
            n \in 0..MaxRowsM }

InitMask ==
    /\ \E cols \in ErrLayouts : errTable \in ErrTablesOf(cols)
    /\ errTablePre = errTable
    /\ maskOp = "none"
    /\ maskExt = <<>>
    /\ IdleBut("mask")

CallMaskNoErrors ==
    \E errExt \in ErrExts :
        /\ maskOp' = "mask_no_errors"
        /\ maskExt' = errExt
        /\ errTablePre' = errTable
        /\ errTable' = MaskNoErrors(errTable, errExt)
        /\ UnchangedBut("mask")

CallMaskZeroErrors ==
    \E errExt \in ErrExts :
        /\ maskOp' = "mask_zero_errors"
        /\ maskExt' = errExt
        /\ errTablePre' = errTable
        /\ errTable' = MaskZeroErrors(errTable, errExt)
        /\ UnchangedBut("mask")

NextMask == CallMaskNoErrors \/ CallMaskZeroErrors

SpecMask == InitMask /\ [][NextMask]_vars

(***************************************************************************)
(* Claims about the masking                                                *)
(***************************************************************************)
\* The error groups of the last call: a column with the columns named after
\* it by the extensions of the call, when the table has them all.
ErrorGroups ==
    { [value |-> key, errors |-> {Append(key, maskExt[k]) : k \in 1..Len(maskExt)}] :
        key \in {c \in Range(errTablePre.colnames) :
                    \A k \in 1..Len(maskExt) :
                        Append(c, maskExt[k]) \in Range(errTablePre.colnames)} }

Members(group) == {group.value} \cup group.errors

\* C6: after mask_no_errors the members of every error group are, in every
\* row, all present or all masked, and a row that was masked in a member is
\* masked in all of them.
C6_GroupMaskedTogether ==
    maskOp = "mask_no_errors" =>
        \A group \in ErrorGroups, r \in 1..Len(errTable.rows) :
            /\ \/ \A c \in Members(group) : errTable.rows[r][c].present
               \/ \A c \in Members(group) : ~errTable.rows[r][c].present
            /\ (\E c \in Members(group) : ~errTablePre.rows[r][c].present)
                   => \A c \in Members(group) : ~errTable.rows[r][c].present

\* C6: mask_no_errors has masked a value and an error of a row because the
\* other error of the row was masked.
C6_Witness ==
    /\ maskOp = "mask_no_errors"
    /\ \E group \in ErrorGroups, r \in 1..Len(errTable.rows) :
           /\ Cardinality(group.errors) = 2
           /\ errTablePre.rows[r][group.value].present
           /\ \E c \in group.errors : errTablePre.rows[r][c].present
           /\ \E c \in group.errors : ~errTablePre.rows[r][c].present
           /\ \A c \in Members(group) : ~errTable.rows[r][c].present

\* C7: after mask_zero_errors, in every row, whatever its position, where an
\* error of a group is exactly zero the value and the errors of the group are
\* masked, and a row whose errors are all non-zero keeps its cells.
C7_ZeroErrorMasksGroup ==
    maskOp = "mask_zero_errors" =>
        \A group \in ErrorGroups, r \in 1..Len(errTable.rows) :
            IF \E c \in group.errors :
                    /\ errTablePre.rows[r][c].present
                    /\ errTablePre.rows[r][c].value = <<0, 1>>
            THEN \A c \in Members(group) : ~errTable.rows[r][c].present
            ELSE \A c \in Members(group) :
                    errTable.rows[r][c] = errTablePre.rows[r][c]

(***************************************************************************)
(* Specification of the lookups                                            *)
(***************************************************************************)
KeyTables == {s \in SeqsUpTo(KeyNames, MaxKeys) : IsInjective(s)}

\* The names of one call: one or several different names.
Queries == {q \in SeqsUpTo(KeyNames, MaxQuery) : q # <<>> /\ IsInjective(q)}

InitIndex ==
    /\ keyTable \in KeyTables
    /\ keyTablePre = keyTable
    /\ lookupOp = "none"
    /\ lookupArgs = <<>>
    /\ lookupResult = Found(<<>>)
    /\ IdleBut("index")

CallGetIndex ==
    \E plName \in Queries :
        /\ lookupOp' = "get_index"
        /\ lookupArgs' = plName
        /\ lookupResult' = GetIndex(keyTable, plName)
        /\ keyTablePre' = keyTable
        /\ keyTable' = keyTable
        /\ UnchangedBut("index")

CallByPlName ==
    \E plName \in Queries, remove \in BOOLEAN :
        /\ lookupOp' = "by_pl_name"
        /\ lookupArgs' = plName
        /\ lookupResult' = ByPlNameResult(keyTable, plName)
        /\ keyTablePre' = keyTable
        /\ keyTable' = ByPlNameTable(keyTable, plName, remove)
        /\ UnchangedBut("index")

NextIndex == CallGetIndex \/ CallByPlName

SpecIndex == InitIndex /\ [][NextIndex]_vars

(***************************************************************************)
(* Claims about the lookups                                                *)
(***************************************************************************)
\* The first of the names of the last lookup that does not identify exactly
\* one row of the table the lookup ran on; 0 when every name does.
FirstUnresolved ==
    LET bad == {j \in 1..Len(lookupArgs) :
                    Cardinality(Matches(keyTablePre, lookupArgs[j])) # 1}
    IN  IF bad = {} THEN 0 ELSE CHOOSE j \in bad : \A k \in bad : j <= k

\* A lookup returns positions only when every name identifies exactly one
\* row; a name matching several keys raises an error listing all of them, a
\* name matching none raises an error of class notFoundKind naming it; an
\* error returns no position and leaves the table as it was.
LookupContract(notFoundKind) ==
    lookupOp # "none" =>
        LET j == FirstUnresolved
        IN  IF j = 0
            THEN /\ lookupResult.kind = "ok"
                 /\ Len(lookupResult.position) = Len(lookupArgs)
                 /\ \A k \in 1..Len(lookupArgs) :
                        Matches(keyTablePre, lookupArgs[k])
                            = {lookupResult.position[k] + 1}
            ELSE LET hit == Matches(keyTablePre, lookupArgs[j])
                 IN  /\ lookupResult.position = <<>>
                     /\ keyTable = keyTablePre
                     /\ IF hit # {}
                        THEN /\ lookupResult.kind = "ValueError"
                             /\ lookupResult.message
                                    = "Incomplete name. Possible values"
                             /\ Range(lookupResult.values)
                                    = {keyTablePre[i] : i \in hit}
                             /\ Len(lookupResult.values) = Cardinality(hit)
                        ELSE /\ lookupResult.kind = notFoundKind
                             /\ lookupResult.values = <<lookupArgs[j]>>

C9_ExactMatchTakesPrecedence ==
    (lookupOp = "get_index" /\ Len(lookupArgs) = 1) =>
        \A i \in 1..Len(keyTablePre) :
            keyTablePre[i] = lookupArgs[1] =>
                /\ lookupResult.kind = "ok"
                /\ lookupResult.position = <<i - 1>>

\* C10: get_index called with several names, each matching at most one row
\* and one of them a row, returns -1 for a name that matches no row, and the
\* position of every other name, instead of raising.
C10_SentinelForUnmatchedName ==
    (/\ lookupOp = "get_index"
     /\ Len(lookupArgs) >= 2
     /\ \A j \in 1..Len(lookupArgs) :
            Cardinality(Matches(keyTablePre, lookupArgs[j])) <= 1
     /\ \E j \in 1..Len(lookupArgs) :
            Cardinality(Matches(keyTablePre, lookupArgs[j])) = 1) =>
        /\ lookupResult.kind = "ok"
        /\ Len(lookupResult.position) = Len(lookupArgs)
        /\ \A j \in 1..Len(lookupArgs) :
               LET hit == Matches(keyTablePre, lookupArgs[j])
               IN  IF hit = {}
                   THEN lookupResult.position[j] = -1
                   ELSE hit = {lookupResult.position[j] + 1}

(***************************************************************************)
(* Table.complete.  The tables are masked tables with the key column in    *)
(* both and one row per key; their keys are compared as Python strings.    *)
(***************************************************************************)
MaxRowsC == 2       \* rows of each table passed to complete

\* The names of the model in the order of Python's string comparison.
NameOrder == << <<"1">>, <<"1", "b">>, <<"1", "c">>, <<"2", "b">> >>

SortNames(S) == SelectSeq(NameOrder, LAMBDA n : n \in S)

RowAt(tbl, k) == CHOOSE i \in 1..Len(tbl.keys) : tbl.keys[i] = k

\* intersection(tbl, other) and difference(left, right) go through a set:
\* the order of their result is not used by the callers.
intersection(tbl, other) == SelectSeq(tbl, LAMBDA c : c \in Range(other))

difference(l, r) == SelectSeq(l, LAMBDA c : c \notin Range(r))

\* A plausible slip: the join keeps the rows of both tables.
JoinKeysOuter(l, r, joinType) ==
    SortNames(Range(l.keys) \cup Range(r.keys))

\* The keys of the rows of join(self, right, join_type, keys=key), sorted.
JoinKeys(l, r, joinType) ==
    SortNames(IF joinType = "inner"
              THEN Range(l.keys) \cap Range(r.keys)
              ELSE IF joinType = "left" THEN Range(l.keys)
              ELSE Range(l.keys) \cup Range(r.keys))

\* The cell of tbl in the joined row of key k: masked where tbl has no row.
JoinCell(tbl, k, c) ==
    IF k \in Range(tbl.keys) THEN tbl.rows[RowAt(tbl, k)][c]
    ELSE Masked(Rat(0, 1))

\* join(self, right, join_type=join_type, keys=key): the columns of self,
\* then those of right, a column the two share suffixed _1 and _2.
Join(l, r, joinType) ==
    LET shared == Range(intersection(l.colnames, r.colnames))
        name(c, suffix) == IF c \in shared THEN c \o suffix ELSE c
        lcols == [i \in 1..Len(l.colnames) |-> name(l.colnames[i], "_1")]
        rcols == [i \in 1..Len(r.colnames) |-> name(r.colnames[i], "_2")]
        keys == JoinKeys(l, r, joinType)
        cell(k, n) ==
            IF n \in Range(lcols)
            THEN JoinCell(l, k, l.colnames[CHOOSE i \in 1..Len(lcols) :
                                                lcols[i] = n])
            ELSE JoinCell(r, k, r.colnames[CHOOSE i \in 1..Len(rcols) :
                                                rcols[i] = n])
    IN  [keys |-> keys,
         colnames |-> lcols \o rcols,
         rows |-> [i \in 1..Len(keys) |->
                      [n \in Range(lcols) \cup Range(rcols) |->
                          cell(keys[i], n)]]]

\* A plausible slip: the value of right is taken wherever right has one.
FillCellFromRight(c1, c2) == IF c2.present THEN Present(c2.value) ELSE c1

\* index = mask of col1 & ~mask of col2; join_t[col1][index] =
\* join_t[col2][index]
FillCell(c1, c2) ==
    IF ~c1.present /\ c2.present THEN Present(c2.value) ELSE c1

\* One turn of the loop over the shared columns: col_1 is completed, renamed
\* col, and col_2 is deleted.
CompleteColumn(joinT, col) ==
    LET col1 == col \o "_1"
        col2 == col \o "_2"
        kept == SelectSeq(joinT.colnames, LAMBDA n : n # col2)
        names == [i \in 1..Len(kept) |->
                     IF kept[i] = col1 THEN col ELSE kept[i]]
    IN  [keys |-> joinT.keys,
         colnames |-> names,
         rows |-> [i \in 1..Len(joinT.rows) |->
                      [n \in Range(names) |->
                          IF n = col
                          THEN FillCell(joinT.rows[i][col1],
                                        joinT.rows[i][col2])
                          ELSE joinT.rows[i][n]]]]

RECURSIVE CompleteColumns(_, _)
CompleteColumns(joinT, cols) ==
    IF cols = <<>> THEN joinT
    ELSE CompleteColumns(CompleteColumn(joinT, Head(cols)), Tail(cols))

\* A plausible slip: the columns of right are kept whatever add_col says.
RemoveColumnsSkipped(tbl, cols) == tbl

\* join_t.remove_columns(supp_cols)
RemoveColumns(tbl, cols) ==
    LET names == difference(tbl.colnames, cols)
    IN  [keys |-> tbl.keys,
         colnames |-> names,
         rows |-> [i \in 1..Len(tbl.rows) |->
                      [n \in Range(names) |-> tbl.rows[i][n]]]]

\* self.complete(right, key, join_type, add_col): the table returned.  With
\* masked tables that both have the key column, _complete does not raise and
\* the handler falling back to the plain join is not entered.
Complete(l, r, joinType, addCol) ==
    LET cols == intersection(l.colnames, r.colnames)
        joinT == CompleteColumns(Join(l, r, joinType), cols)
        suppCols == difference(r.colnames, l.colnames)
    IN  IF ~addCol /\ suppCols # <<>>
        THEN RemoveColumns(joinT, suppCols)
        ELSE joinT

\* A plausible slip: the masked cells of self are filled in place.
SelfAfterCompleteInPlace(l, out) ==
    [l EXCEPT !.rows =
        [i \in 1..Len(l.rows) |->
            [c \in Range(l.colnames) |->
                IF l.keys[i] \in Range(out.keys)
                THEN out.rows[RowAt(out, l.keys[i])][c]
                ELSE l.rows[i][c]]]]

\* self after the call: join builds a new table and unshare_mask keeps the
\* assignment to join_t away from the mask of self.
SelfAfterComplete(l, out) == l

(***************************************************************************)
(* Specification of complete: one call on every pair of small tables.      *)
(***************************************************************************)
CompleteNames == {<<"1", "b">>, <<"1", "c">>, <<"2", "b">>}

LeftCols == <<"pl_orbper", "pl_bmasse">>

RightLayouts == {<<"pl_orbper", "st_teff">>, <<"pl_bmasse", "pl_orbper">>}

LeftCells == {Present(Rat(7, 1)), Masked(Rat(0, 1))}

RightCells(c) ==
    IF c = "st_teff" THEN {Present(Rat(9, 1))}
    ELSE {Present(Rat(8, 1)), Masked(Rat(5, 1))}

\* self: up to MaxRowsC rows in any order.
LeftTables ==
    UNION {
        {[keys |-> keys, colnames |-> LeftCols, rows |-> rows] :
            keys \in {k \in [1..n -> CompleteNames] : IsInjective(k)},
            rows \in [1..n -> [Range(LeftCols) -> LeftCells]]}
        : n \in 0..MaxRowsC}

RightRows(cols) ==
    {f \in [Range(cols) -> UNION {RightCells(c) : c \in Range(cols)}] :
        \A c \in Range(cols) : f[c] \in RightCells(c)}

\* right: up to MaxRowsC rows, one of the two column layouts.
RightTables ==
    UNION {
        {[keys |-> SortNames(ks), colnames |-> cols, rows |-> rows] :
            rows \in [1..Cardinality(ks) -> RightRows(cols)]}
        : ks \in {s \in SUBSET CompleteNames : Cardinality(s) <= MaxRowsC},
          cols \in RightLayouts}

InitComplete ==
    /\ left \in LeftTables
    /\ right \in RightTables
    /\ completeOp = NoComplete
    /\ completeOut = NoTable
    /\ IdleBut("complete")

CallComplete ==
    /\ ~completeOp.called
    /\ \E joinType \in {"left", "inner", "outer"}, addCol \in BOOLEAN :
        LET out == Complete(left, right, joinType, addCol)
        IN  /\ completeOp' = [called |-> TRUE, joinType |-> joinType,
                              addCol |-> addCol]
            /\ completeOut' = out
            /\ left' = SelfAfterComplete(left, out)
            /\ right' = right
    /\ UnchangedBut("complete")

NextComplete == CallComplete

SpecComplete == InitComplete /\ [][NextComplete]_vars

(***************************************************************************)
(* Claims on complete                                                      *)
(***************************************************************************)
SameCell(a, b) == a.present = b.present /\ (a.present => a.value = b.value)

\* C11: in every row of the table complete returned and every column the two
\* tables share, the cell is the cell of right when the cell of left is
\* masked and that of right present, and the cell of left in every other
\* case: a present cell of left is never replaced.
C11_CompletePerCellRule ==
    completeOp.called =>
        \A i \in 1..Len(completeOut.keys) :
            \A c \in Range(left.colnames) \cap Range(right.colnames) :
                LET k == completeOut.keys[i]
                    l == JoinCell(left, k, c)
                    r == JoinCell(right, k, c)
                IN  /\ c \in Range(completeOut.colnames)
                    /\ IF ~l.present /\ r.present
                       THEN completeOut.rows[i][c] = Present(r.value)
                       ELSE SameCell(completeOut.rows[i][c], l)

\* C11: a call has filled a masked cell of left from right and has kept a
\* present cell of left although right had another value for it.
C11_Witness ==
    /\ completeOp.called
    /\ \E i \in 1..Len(completeOut.keys) :
        LET k == completeOut.keys[i]
        IN  /\ ~JoinCell(left, k, "pl_orbper").present
            /\ JoinCell(right, k, "pl_orbper").present
            /\ completeOut.rows[i]["pl_orbper"] = Present(Rat(8, 1))
    /\ \E i \in 1..Len(completeOut.keys) :
        LET k == completeOut.keys[i]
        IN  /\ JoinCell(left, k, "pl_orbper") = Present(Rat(7, 1))
            /\ JoinCell(right, k, "pl_orbper").present
            /\ completeOut.rows[i]["pl_orbper"] = Present(Rat(7, 1))

C13_ColumnsOfResult ==
    completeOp.called =>
        /\ IsInjective(completeOut.colnames)
        /\ Range(completeOut.colnames) =
              IF completeOp.addCol
              THEN Range(left.colnames) \cup Range(right.colnames)
              ELSE Range(left.colnames)

\* C13: a call with add_col=False on a right table that has a column of its
\* own and shares one with left.
C13_Witness ==
    /\ completeOp.called
    /\ ~completeOp.addCol
    /\ "st_teff" \in Range(right.colnames)
    /\ "pl_orbper" \in Range(right.colnames)
    /\ Len(completeOut.keys) >= 1
    /\ completeOut.colnames = left.colnames

(***************************************************************************)
(* compose_from_ps: the loop that folds the candidates into the default    *)
(* rows, one pass per step.                                                *)
(***************************************************************************)
MaxPool == 3        \* candidate rows in the pool at loop entry
MaxRowsA == 2       \* default-flag rows (rows of the accumulator)

RECURSIVE Flatten(_)
Flatten(ss) == IF ss = <<>> THEN <<>> ELSE Head(ss) \o Flatten(Tail(ss))

\* tbl[index] for a list of 1-based row positions.
TakeRows(tbl, index) ==
    [keys |-> [j \in 1..Len(index) |-> tbl.keys[index[j]]],
     colnames |-> tbl.colnames,
     rows |-> [j \in 1..Len(index) |-> tbl.rows[index[j]]]]

\* A plausible slip: the rows folded are left in the pool.
RemoveRowsSkipped(tbl, index) == tbl

\* grouped.remove_rows(index)
RemoveRows(tbl, index) ==
    TakeRows(tbl, SelectSeq([i \in 1..Len(tbl.keys) |-> i],
                            LAMBDA i : i \notin Range(index)))

\* group_by(["pl_name"]): the rows sorted by key, the rows of one key in the
\* order they had.
GroupBy(tbl) ==
    LET names == SortNames(Range(tbl.keys))
        all == [i \in 1..Len(tbl.keys) |-> i]
    IN  TakeRows(tbl, Flatten([j \in 1..Len(names) |->
                    SelectSeq(all, LAMBDA i : tbl.keys[i] = names[j])]))

\* groups.indices[:-1]: the position of the first row of each group.
GroupIndices(g) ==
    SelectSeq([i \in 1..Len(g.keys) |-> i],
              LAMBDA i : i = 1 \/ g.keys[i] # g.keys[i - 1])

\* Table.has_masked_values
HasMaskedValues(tbl) ==
    \E i \in 1..Len(tbl.rows) : \E c \in Range(tbl.colnames) :
        ~tbl.rows[i][c].present

\* A plausible slip: the loop goes on for as long as a cell is masked.
WhileConditionMaskedOnly(pool, acc) == HasMaskedValues(acc)

\* while len(grouped) > 1 and ps_tbl.has_masked_values
WhileCondition(pool, acc) == Len(pool.keys) > 1 /\ HasMaskedValues(acc)

(***************************************************************************)
(* Specification of the loop.  The candidates carry their sort metrics     *)
(* today_pl_tranmiderr1 and today_pl_orbtpererr1 and a value that tells    *)
(* them apart; they reach extended.sort in any order.                      *)
(***************************************************************************)
\* sort_keys, as update sets it by default.
SortKeys == <<"today_pl_tranmiderr1", "today_pl_orbtpererr1">>

RatLess(a, b) == a[1] * b[2] < b[1] * a[2]

\* Row a comes before row b in the order of the keys, the first key that
\* differs deciding.
RECURSIVE LexLess(_, _, _)
LexLess(a, b, keys) ==
    IF keys = <<>> THEN FALSE
    ELSE IF a[Head(keys)].value = b[Head(keys)].value
    THEN LexLess(a, b, Tail(keys))
    ELSE RatLess(a[Head(keys)].value, b[Head(keys)].value)

\* A plausible slip: the candidates are left in the order of the archive.
SortSkipped(tbl, keys) == tbl

\* extended.sort(sort_keys): ascending, rows of equal keys in their order.
Sort(tbl, keys) ==
    LET n == Len(tbl.keys)
        before(j, i) ==
            \/ LexLess(tbl.rows[j], tbl.rows[i], keys)
            \/ ~LexLess(tbl.rows[i], tbl.rows[j], keys) /\ j < i
        rank(i) == 1 + Cardinality({j \in 1..n : before(j, i)})
    IN  TakeRows(tbl, [p \in 1..n |-> CHOOSE i \in 1..n : rank(i) = p])

\* The orders in which the archive can give n rows.
Orders(n) == {f \in [1..n -> 1..n] : IsInjective(f)}

ComposeNames == {<<"1", "b">>, <<"2", "b">>}

ComposeCols == <<"pl_orbper", "pl_bmasse">>

PoolCols ==
    <<"pl_orbper", "pl_bmasse", "today_pl_tranmiderr1",
      "today_pl_orbtpererr1">>

\* The default rows: one per object, in the order of the archive (by name).
DefaultTables ==
    UNION {
        {[keys |-> SortNames(ks), colnames |-> ComposeCols, rows |-> rows] :
            rows \in [1..Cardinality(ks) -> [Range(ComposeCols) ->
                        {Present(Rat(7, 1)), Masked(Rat(0, 1))}]]}
        : ks \in {s \in SUBSET ComposeNames : Cardinality(s) <= MaxRowsA}}

PoolRow(i, has) ==
    [c \in Range(PoolCols) |->
        IF c = "today_pl_tranmiderr1" THEN Present(Rat((i + 1) \div 2, 1))
        ELSE IF c = "today_pl_orbtpererr1" THEN Present(Rat(i, 1))
        ELSE IF c \in has THEN Present(Rat(10 + i, 1))
        ELSE Masked(Rat(0, 1))]

PoolTables ==
    UNION {
        {[keys |-> keys, colnames |-> PoolCols,
          rows |-> [i \in 1..n |-> PoolRow(i, has[i])]] :
            keys \in [1..n -> ComposeNames],
            has \in [1..n -> SUBSET Range(ComposeCols)]}
        : n \in 0..MaxPool}

\* compose_from_ps is entered with no table yet.
InitCompose ==
    /\ psDefault = NoTable
    /\ poolInit = NoTable
    /\ psTbl = NoTable
    /\ grouped = NoTable
    /\ passes = 0
    /\ composePc = "start"
    /\ IdleBut("compose")

\* From the entry to the first test of the loop: the rows of ps_tbl are
\* split on default_flag, the candidates are sorted and then grouped.
ComposeEnter ==
    /\ composePc = "start"
    /\ \E defaults \in DefaultTables, pool \in PoolTables :
        \E order \in Orders(Len(pool.keys)) :
            \E extended \in {Sort(TakeRows(pool, order), SortKeys)} :
                /\ psDefault' = defaults
                /\ poolInit' = extended
                /\ psTbl' = defaults
                /\ grouped' = GroupBy(extended)
    /\ passes' = 0
    /\ composePc' = "loop"
    /\ UnchangedBut("compose")

\* One pass of the loop.  The code puts no limit on i; MaxPool + 1 passes
\* are more than a pool of MaxPool rows can feed.
ComposePass ==
    /\ composePc = "loop"
    /\ WhileCondition(grouped, psTbl)
    /\ passes <= MaxPool
    /\ \E regrouped \in {GroupBy(grouped)} :
        \E index \in {GroupIndices(regrouped)} :
            \E first \in {TakeRows(regrouped, index)} :
                /\ psTbl' = Complete(psTbl, first, "left", FALSE)
                /\ grouped' = RemoveRows(regrouped, index)
    /\ passes' = passes + 1
    /\ UNCHANGED <<psDefault, poolInit, composePc>>
    /\ UnchangedBut("compose")

\* The test of the loop fails: compose_from_ps returns ps_tbl.
ComposeReturn ==
    /\ composePc = "loop"
    /\ ~WhileCondition(grouped, psTbl)
    /\ composePc' = "returned"
    /\ UNCHANGED <<psDefault, poolInit, psTbl, grouped, passes>>
    /\ UnchangedBut("compose")

NextCompose == ComposeEnter \/ ComposePass \/ ComposeReturn

SpecCompose == InitCompose /\ [][NextCompose]_vars

\* NextCompose can take a step: ENABLED <<NextCompose>>_vars, written out.
ComposeEnabled ==
    \/ composePc = "start"
    \/ /\ composePc = "loop"
       /\ ~WhileCondition(grouped, psTbl) \/ passes <= MaxPool

\* Every step of NextCompose changes passes or composePc.
ComposeStep == passes' # passes \/ composePc' # composePc

\* The function is sequential code: a step that can be taken is taken.  This
\* is WF_vars(NextCompose) with its ENABLED written as ComposeEnabled.
SpecComposeLive ==
    SpecCompose /\ ([]<>(~ComposeEnabled) \/ []<><<ComposeStep>>_vars)

(***************************************************************************)
(* Claims on the loop of compose_from_ps                                   *)
(***************************************************************************)
Objects(tbl) == Range(tbl.keys)

\* C14: every pass takes out of the pool one row per object still in it, so
\* at least one; a pass is made only while the pool has more than one row
\* and the accumulator a masked cell, and the function returns at the first
\* test that finds otherwise; so the loop terminates.
C14_LoopTerminates ==
    /\ [][/\ passes' = passes + 1 =>
                /\ Len(grouped.keys) > 1 /\ HasMaskedValues(psTbl)
                /\ Cardinality(Objects(grouped)) >= 1
                /\ Len(grouped'.keys) =
                       Len(grouped.keys) - Cardinality(Objects(grouped))
          /\ (composePc = "loop" /\ composePc' # composePc) =>
                /\ composePc' = "returned"
                /\ Len(grouped.keys) <= 1 \/ ~HasMaskedValues(psTbl)]_vars
    /\ <>(composePc = "returned")

\* C14: the loop has returned after two passes that left one row in a pool
\* of three, the accumulator still having a masked cell.
C14_Witness ==
    /\ composePc = "returned"
    /\ passes = 2
    /\ Len(poolInit.keys) = 3
    /\ Len(grouped.keys) = 1
    /\ HasMaskedValues(psTbl)

\* The largest number of candidate rows one object has in the pool.
GroupSize(tbl, k) == Cardinality({i \in 1..Len(tbl.keys) : tbl.keys[i] = k})

MaxGroupSize(tbl) ==
    IF tbl.keys = <<>> THEN 0
    ELSE CHOOSE n \in 1..Len(tbl.keys) :
            /\ \E k \in Objects(tbl) : GroupSize(tbl, k) = n
            /\ \A k \in Objects(tbl) : GroupSize(tbl, k) <= n

\* C15 as stated: the passes executed never exceed the number of distinct
\* objects of the candidate pool.
C15_PassesBoundedByObjects ==
    passes <= Cardinality(Objects(poolInit))

\* C15 amended: the passes executed never exceed the largest number of
\* candidate rows that one object has in the pool.
C15_PassesBoundedByGroupSize ==
    passes <= MaxGroupSize(poolInit)

\* C15: the loop has returned after two passes on a pool that holds three
\* candidates of a single object.
C15_Witness ==
    /\ composePc = "returned"
    /\ Cardinality(Objects(poolInit)) = 1
    /\ MaxGroupSize(poolInit) = 3
    /\ passes = 2

\* C16: once compose_from_ps has returned, a cell of the accumulator is
\* masked only if no candidate row of its object had that cell present.
C16_EverySuppliedValueFills ==
    composePc = "returned" =>
        \A i \in 1..Len(psTbl.keys) : \A c \in Range(ComposeCols) :
            ~psTbl.rows[i][c].present =>
                \A j \in 1..Len(poolInit.keys) :
                    poolInit.keys[j] = psTbl.keys[i] =>
                        ~poolInit.rows[j][c].present

(***************************************************************************)
(* ExoFile.update: the columns of the table it returns.                    *)
(***************************************************************************)
MaxCols == 3        \* columns of the reduced table and of the reference list

\* A plausible slip: the table is not indexed with the reference list.
SelectColumnsSkipped(colnames, names) == Returned(colnames)

\* new[pc_cols]: the columns named, in that order; a KeyError when the table
\* lacks one of them.
SelectColumns(colnames, names) ==
    IF Range(names) \subseteq Range(colnames) THEN Returned(names)
    ELSE Raises("KeyError")

\* The safety check on the columns left.
SafetyCheck(colnames, pcCols) ==
    IF Len(difference(colnames, pcCols)) > 0
          \/ Len(difference(pcCols, colnames)) > 0
    THEN Raises("RuntimeError")
    ELSE Returned(colnames)

\* update(use_composite_archive): with the composite archive the table
\* queried is returned as it is; else the table built by format_ps_table and
\* compose_from_ps loses the columns the reference list does not have, is
\* indexed with the list and is checked against it.
Update(args) ==
    IF args.useComposite THEN Returned(args.colnames)
    ELSE LET dlist == difference(args.colnames, args.pcCols)
             kept == difference(args.colnames, dlist)
             new == SelectColumns(kept, args.pcCols)
         IN  IF new.kind # "ok" THEN new
             ELSE SafetyCheck(new.colnames, args.pcCols)

(***************************************************************************)
(* Specification of update                                                 *)
(***************************************************************************)
UpdateCols == {"pl_name", "pl_orbper", "pl_bmasse", "pl_orbper_reflink"}

ColumnLists ==
    UNION {{l \in [1..n -> UpdateCols] : IsInjective(l)} : n \in 1..MaxCols}

InitUpdate ==
    /\ updateArgs \in {[called |-> FALSE, useComposite |-> u,
                        colnames |-> c, pcCols |-> p] :
                            u \in BOOLEAN, c \in ColumnLists,
                            p \in ColumnLists}
    /\ updateOutcome = Raises("none")
    /\ IdleBut("update")

CallUpdate ==
    /\ ~updateArgs.called
    /\ updateArgs' = [updateArgs EXCEPT !.called = TRUE]
    /\ updateOutcome' = Update(updateArgs)
    /\ UnchangedBut("update")

NextUpdate == CallUpdate

SpecUpdate == InitUpdate /\ [][NextUpdate]_vars

(***************************************************************************)
(* Claims on update                                                        *)
(***************************************************************************)
NonCompositeCall == updateArgs.called /\ ~updateArgs.useComposite

MaxRowsF == 2       \* rows of the table passed to format_ps_table

Null == <<>>

NaN == <<0, 0>>

MISSING_COLS ==
    {<<"raerr1">>, <<"raerr2">>, <<"decerr1">>, <<"decerr2">>,
     <<"glaterr1">>, <<"glaterr2">>, <<"glonerr1">>, <<"glonerr2">>,
     <<"elaterr1">>, <<"elaterr2">>, <<"elonerr1">>, <<"elonerr2">>}

\* label_df: the rows with both labels, the system references left out.
LabelDf(csv) ==
    SelectSeq(csv, LAMBDA r : /\ r.ps # Null
                              /\ r.pc # Null
                              /\ ~Contains(r.ps, <<"systemref">>))

LabelPs(r) == r.ps

\* label_pc = label_df[PS_NAME].str.strip()
LabelPc(r) == r.ps

\* ps_tbl.rename_column(lps, lpc): a KeyError when the table has no column
\* lps, or has a column lpc already.
RenameColumn(tbl, lps, lpc) ==
    IF lps \notin Range(tbl.colnames) THEN [ok |-> FALSE, table |-> tbl]
    ELSE IF lps = lpc THEN [ok |-> TRUE, table |-> tbl]
    ELSE IF lpc \in Range(tbl.colnames) THEN [ok |-> FALSE, table |-> tbl]
    ELSE LET names == [i \in 1..Len(tbl.colnames) |->
                          IF tbl.colnames[i] = lps THEN lpc
                          ELSE tbl.colnames[i]]
             from(n) == IF n = lpc THEN lps ELSE n
         IN  [ok |-> TRUE,
              table |-> [colnames |-> names,
                         kind |-> [n \in Range(names) |-> tbl.kind[from(n)]],
                         rows |-> [i \in 1..Len(tbl.rows) |->
                                      [n \in Range(names) |->
                                          tbl.rows[i][from(n)]]]]]

\* A plausible slip: the loop ends at the first column it does not find.
RECURSIVE RenameAllStopping(_, _, _)
RenameAllStopping(tbl, pairs, warnings) ==
    IF pairs = <<>> THEN [table |-> tbl, warnings |-> warnings]
    ELSE LET lps == LabelPs(Head(pairs))
             done == RenameColumn(tbl, lps, LabelPc(Head(pairs)))
         IN  IF lps \in MISSING_COLS
             THEN RenameAllStopping(tbl, Tail(pairs), warnings)
             ELSE IF done.ok
             THEN RenameAllStopping(done.table, Tail(pairs), warnings)
             ELSE [table |-> tbl,
                   warnings |-> Append(warnings, [kind |-> "RuntimeWarning",
                                                  label |-> lps])]

\* The loop over zip(label_ps, label_pc).
RECURSIVE RenameAll(_, _, _)
RenameAll(tbl, pairs, warnings) ==
    IF pairs = <<>> THEN [table |-> tbl, warnings |-> warnings]
    ELSE LET lps == LabelPs(Head(pairs))
             lpc == LabelPc(Head(pairs))
         IN  IF lps \in MISSING_COLS
             THEN RenameAll(tbl, Tail(pairs), warnings)
             ELSE LET done == RenameColumn(tbl, lps, lpc)
                  IN  RenameAll(done.table, Tail(pairs),
                                IF done.ok THEN warnings
                                ELSE Append(warnings,
                                        [kind |-> "RuntimeWarning",
                                         label |-> lps]))

\* A plausible slip: the column is not assigned.
SetColumnSkipped(tbl, name, kind, cells) == tbl

\* ps_tbl[name] = column: the column replaced, or added after the others.
SetColumn(tbl, name, kind, cells) ==
    LET names == IF name \in Range(tbl.colnames) THEN tbl.colnames
                 ELSE Append(tbl.colnames, name)
    IN  [colnames |-> names,
         kind |-> [n \in Range(names) |->
                      IF n = name THEN kind ELSE tbl.kind[n]],
         rows |-> [i \in 1..Len(tbl.rows) |->
                      [n \in Range(names) |->
                          IF n = name THEN cells[i] ELSE tbl.rows[i][n]]]]

ColumnCells(tbl, name) == [i \in 1..Len(tbl.rows) |-> tbl.rows[i][name]]

\* reflink_labels: the pc labels of the whole CSV that end with reflink.
ReflinkLabels(csv) ==
    LET withPc == SelectSeq(csv, LAMBDA r : r.pc # Null)
        labels == [i \in 1..Len(withPc) |-> withPc[i].pc]
    IN  SelectSeq(labels, LAMBDA l : l[Len(l)] = "reflink")

\* rlab.replace("_reflink", "")
ValueLabel(rlab) == SelectSeq(rlab, LAMBDA piece : piece # "reflink")

\* nmask at one row.  A string column is compared with "": the comparison
\* of a masked column is False where the cell is masked.  Any other column
\* goes through np.isnan, which np.where reads under the mask.
NMask(cell, kind) ==
    IF kind = "str" THEN cell.present /\ cell.value = ""
    ELSE cell.value = NaN

\* new_refs: the provenance column the prefix of rlab selects, "" (with a
\* warning) for any other prefix.
RefnameColumn(rlab) ==
    IF rlab[1] = "st" THEN <<"st", "refname">>
    ELSE IF rlab[1] \in {"sy", "ra"} THEN <<"sy", "refname">>
    ELSE IF rlab[1] = "pl" THEN <<"pl", "refname">>
    ELSE Null

\* The loop over reflink_labels, interrupted by the first exception.
RECURSIVE DeriveReflinks(_, _, _)
DeriveReflinks(tbl, rlabs, warnings) ==
    IF rlabs = <<>>
    THEN [kind |-> "ok", table |-> tbl, warnings |-> warnings]
    ELSE LET rlab == Head(rlabs)
             plab == ValueLabel(rlab)
             refs == RefnameColumn(rlab)
             warned == IF refs = Null
                       THEN Append(warnings, [kind |-> "UserWarning",
                                              label |-> rlab])
                       ELSE warnings
         IN  IF plab \notin Range(tbl.colnames)
             THEN [kind |-> "KeyError", table |-> tbl, warnings |-> warnings]
             ELSE IF tbl.rows = <<>>
             THEN [kind |-> "IndexError", table |-> tbl,
                   warnings |-> warnings]
             ELSE IF refs # Null /\ refs \notin Range(tbl.colnames)
             THEN [kind |-> "KeyError", table |-> tbl, warnings |-> warnings]
             ELSE DeriveReflinks(
                    SetColumn(tbl, rlab, "str",
                        [i \in 1..Len(tbl.rows) |->
                            IF NMask(tbl.rows[i][plab], tbl.kind[plab])
                               \/ refs = Null
                            THEN Present("")
                            ELSE Present(tbl.rows[i][refs].value)]),
                    Tail(rlabs), warned)

\* format_ps_table(ps_tbl): the renaming, the two copies of pl_tsystemref
\* and the derivation of the reference links.
FormatPsTable(csv, tbl) ==
    LET renamed == RenameAll(tbl, LabelDf(csv), <<>>)
        tsysRef == <<"pl", "t", "systemref">>
    IN  IF tsysRef \notin Range(renamed.table.colnames)
        THEN [kind |-> "KeyError", table |-> renamed.table,
              warnings |-> renamed.warnings]
        ELSE LET cells == ColumnCells(renamed.table, tsysRef)
                 kind == renamed.table.kind[tsysRef]
                 copied == SetColumn(
                              SetColumn(renamed.table,
                                        <<"pl", "tranmid", "systemref">>,
                                        kind, cells),
                              <<"pl", "orbtper", "systemref">>, kind, cells)
             IN  DeriveReflinks(copied, ReflinkLabels(csv), renamed.warnings)


\* The rows of the mapping CSV the calls are given, in the order of the
\* file: a pair whose labels differ, a pair whose labels agree, a column of
\* the exclusion list, a column no table has, the mismatched reference time,
\* and four reference links (one per branch of the prefix rule).
RenamedPair == [ps |-> <<"pl", "trandur">>, pc |-> <<"pl", "trandurh">>]

CsvRows ==
    << RenamedPair,
       [ps |-> <<"pl", "orbper">>, pc |-> <<"pl", "orbper">>],
       [ps |-> <<"raerr1">>, pc |-> <<"raerr1">>],
       [ps |-> <<"pl", "nespec">>, pc |-> <<"pl", "nespec">>],
       [ps |-> <<"pl", "t", "systemref">>,
        pc |-> <<"pl", "tranmid", "systemref">>],
       [ps |-> Null, pc |-> <<"pl", "orbper", "reflink">>],
       [ps |-> Null, pc |-> <<"st", "spectype", "reflink">>],
       [ps |-> Null, pc |-> <<"ra", "reflink">>],
       [ps |-> Null, pc |-> <<"dec", "reflink">>] >>

AlwaysListed == {2, 4, 5}

Mappings ==
    {SelectSeq([i \in 1..Len(CsvRows) |-> [at |-> i, row |-> CsvRows[i]]],
               LAMBDA e : e.at \in AlwaysListed \cup chosen) :
        chosen \in SUBSET (1..Len(CsvRows) \ AlwaysListed)}

CsvOf(listed) == [i \in 1..Len(listed) |-> listed[i].row]

FixedCols ==
    << <<"ra">>, <<"dec">>, <<"st", "refname">>, <<"sy", "refname">>,
       <<"pl", "refname">> >>

PsLayouts ==
    {<< <<"pl", "orbper">>, <<"st", "spectype">> >> \o FixedCols \o extra :
        extra \in {<<>>, << <<"pl", "t", "systemref">> >>,
                   << <<"pl", "t", "systemref">>, <<"pl", "trandur">> >>}}

PsKind(name) ==
    IF name \in {<<"pl", "orbper">>, <<"ra">>, <<"dec">>, <<"pl", "trandur">>}
    THEN "float" ELSE "str"

\* The cells of pl_orbper and st_spectype: present or masked, and under the
\* mask either the fill value or the number the archive gave.
OrbperCells ==
    {Present(<<5, 1>>), Present(NaN), Masked(NaN), Masked(<<5, 1>>)}

SpectypeCells == {Present("G2"), Present(""), Masked("")}

PsRow(cols, orbper, spectype) ==
    [n \in Range(cols) |->
        IF n = <<"pl", "orbper">> THEN orbper
        ELSE IF n = <<"st", "spectype">> THEN spectype
        ELSE IF PsKind(n) = "float" THEN Present(<<3, 1>>)
        ELSE IF n[Len(n)] = "refname" THEN Present(n[1] \o " ref")
        ELSE Present("BJD-TDB")]

PsTablesOf(cols) ==
    {[colnames |-> cols,
      kind |-> [n \in Range(cols) |-> PsKind(n)],
      rows |-> rows] :
        rows \in UNION {[1..k -> {PsRow(cols, o, s) :
                                    o \in OrbperCells, s \in SpectypeCells}] :
                            k \in 0..MaxRowsF}}

InitFormat ==
    /\ \E listed \in Mappings : mapping = CsvOf(listed)
    /\ \E cols \in PsLayouts : psRaw \in PsTablesOf(cols)
    /\ formatOutcome = NoFormat
    /\ IdleBut("format")

CallFormatPsTable ==
    /\ formatOutcome.kind = "none"
    /\ formatOutcome' = FormatPsTable(mapping, psRaw)
    /\ UNCHANGED <<mapping, psRaw>>
    /\ UnchangedBut("format")

NextFormat == CallFormatPsTable

SpecFormat == InitFormat /\ [][NextFormat]_vars

\* C18: after format_ps_table, every kept pair (old, new) of the mapping
\* whose old column is in the input and not excluded, and whose labels
\* differ, has the column under the new label, with the data of the old
\* one, and no column under the old label.
C18_ColumnsRenamedToNewLabel ==
    formatOutcome.kind = "ok" =>
        \A i \in 1..Len(LabelDf(mapping)) :
            LET old == LabelDf(mapping)[i].ps
                new == LabelDf(mapping)[i].pc
                out == formatOutcome.table
            IN  (/\ old \in Range(psRaw.colnames)
                 /\ old \notin MISSING_COLS
                 /\ old # new)
                => /\ new \in Range(out.colnames)
                   /\ old \notin Range(out.colnames)
                   /\ ColumnCells(out, new) = ColumnCells(psRaw, old)

\* The value column of R is masked, NaN or empty at the row.
ValueAbsent(cell, kind) ==
    \/ ~cell.present
    \/ IF kind = "str" THEN cell.value = "" ELSE cell.value = NaN

\* C19: after format_ps_table, for every label R of the mapping target
\* ending in reflink, with value column P, and every row: the cell of R is
\* "" when P is masked, NaN or empty, and otherwise st_refname, sy_refname
\* or pl_refname of the row by the prefix of R; any other prefix gives a
\* warning and a column of "".
C19_ReflinkFromProvenance ==
    formatOutcome.kind = "ok" =>
        \A rlab \in Range(ReflinkLabels(mapping)) :
            LET plab == ValueLabel(rlab)
                out == formatOutcome.table
                refs == IF rlab[1] = "st" THEN <<"st", "refname">>
                        ELSE IF rlab[1] \in {"sy", "ra"}
                        THEN <<"sy", "refname">>
                        ELSE <<"pl", "refname">>
            IN  IF rlab[1] \in {"st", "sy", "ra", "pl"}
                THEN \A i \in 1..Len(out.rows) :
                        out.rows[i][rlab] =
                            IF ValueAbsent(out.rows[i][plab], out.kind[plab])
                            THEN Present("")
                            ELSE Present(out.rows[i][refs].value)
                ELSE /\ \A i \in 1..Len(out.rows) :
                            out.rows[i][rlab] = Present("")
                     /\ \E w \in Range(formatOutcome.warnings) :
                            w.kind = "UserWarning" /\ w.label = rlab


(***************************************************************************)
(* ExoFile.query and ExoFile.load                                          *)
(***************************************************************************)
FileWarning(kind, file) == [kind |-> kind, file |-> file]

\* The first try of query: the remote master, or after an SSLError the
\* local exofile; when that cannot be read either, a warning (or the
\* exception with debug="raise") and no master at all.
QueryMaster(env) ==
    IF env.remote = "ok"
    THEN [raised |-> "none", bound |-> TRUE, master |-> env.remoteTable,
          warnings |-> <<>>]
    ELSE IF env.remote = "error"
    THEN [raised |-> "ConnectionError", bound |-> FALSE,
          master |-> EmptyTable, warnings |-> <<>>]
    ELSE IF env.exofile.ok
    THEN [raised |-> "none", bound |-> TRUE, master |-> env.exofile.table,
          warnings |-> <<>>]
    ELSE IF env.queryDebug = "raise"
    THEN [raised |-> "OSError", bound |-> FALSE, master |-> EmptyTable,
          warnings |-> <<>>]
    ELSE [raised |-> "none", bound |-> FALSE, master |-> EmptyTable,
          warnings |-> <<FileWarning("GetLocalFileWarning", "exofile")>>]

\* master.replace_with(custom) in query, as the try around it sees it.
SheetApplied(res) ==
    [raised |-> IF res.outcome = "ok" THEN "none" ELSE res.outcome,
     master |-> res.target, warnings |-> res.warnings]

\* The second try of query: the sheet is fetched and master.replace_with
\* applies it; master is an unbound name when the first try gave none.
QuerySheet(env, first) ==
    IF ~env.sheet.ok
    THEN [raised |-> "HTTPError", master |-> first.master, warnings |-> <<>>]
    ELSE IF ~first.bound
    THEN [raised |-> "UnboundLocalError", master |-> first.master,
          warnings |-> <<>>]
    ELSE SheetApplied(ReplaceWith(first.master, env.sheet.table))

\* The except clause of the second try and the return of query.
QueryReturn(env, first, patched) ==
    IF patched.raised = "none"
    THEN LoadResult("ok", patched.master,
                    first.warnings \o patched.warnings)
    ELSE IF env.queryDebug # "False"
    THEN LoadResult(patched.raised, EmptyTable,
                    first.warnings \o patched.warnings)
    ELSE IF first.bound
    THEN LoadResult("ok", patched.master,
                    Append(first.warnings \o patched.warnings,
                           FileWarning("QueryFileWarning", "google sheet")))
    ELSE LoadResult("UnboundLocalError", EmptyTable,
                    Append(first.warnings \o patched.warnings,
                           FileWarning("QueryFileWarning", "google sheet")))

QueryAfterMaster(env, first) ==
    IF first.raised # "none"
    THEN LoadResult(first.raised, EmptyTable, first.warnings)
    ELSE QueryReturn(env, first, QuerySheet(env, first))

\* ExoFile.query(debug=queryDebug).
Query(env) == QueryAfterMaster(env, QueryMaster(env))

\* master.replace_with(custom) in load, and the except clause around it.
CustomApplied(env, warnings, res) ==
    IF res.outcome = "ok"
    THEN LoadResult("ok", res.target, warnings \o res.warnings)
    ELSE IF env.debug = "raise"
    THEN LoadResult(res.outcome, EmptyTable, warnings \o res.warnings)
    ELSE LoadResult("ok", res.target,
                    Append(warnings \o res.warnings,
                           FileWarning("GetLocalFileWarning",
                                       "custom file")))

\* A plausible slip: the arguments of replace_with exchanged, so that the
\* master patches the custom file.
ApplyCustomFileReversed(env, master, warnings) ==
    IF env.customFile.ok
    THEN CustomApplied(env, warnings,
                       ReplaceWith(env.customFile.table, master))
    ELSE IF env.debug = "raise"
    THEN LoadResult("OSError", EmptyTable, warnings)
    ELSE LoadResult("ok", master,
                    Append(warnings, FileWarning("GetLocalFileWarning",
                                                 "custom file")))

\* The end of load: the custom file is read and applied to master.
ApplyCustomFile(env, master, warnings) ==
    IF env.customFile.ok
    THEN CustomApplied(env, warnings,
                       ReplaceWith(master, env.customFile.table))
    ELSE IF env.debug = "raise"
    THEN LoadResult("OSError", EmptyTable, warnings)
    ELSE LoadResult("ok", master,
                    Append(warnings, FileWarning("GetLocalFileWarning",
                                                 "custom file")))

\* The middle of load: the local exofile, and the custom file alone as the
\* last resort.
ReadLocal(env, warnings) ==
    IF env.exofile.ok
    THEN ApplyCustomFile(env, env.exofile.table, warnings)
    ELSE IF env.debug = "raise"
    THEN LoadResult("OSError", EmptyTable, warnings)
    ELSE IF env.customFile.ok
    THEN LoadResult("ok", env.customFile.table,
                    Append(warnings, FileWarning("GetLocalFileWarning",
                                                 "exofile")))
    ELSE LoadResult("OSError", EmptyTable,
                    Append(warnings, FileWarning("GetLocalFileWarning",
                                                 "exofile")))

\* The try around cls.query in load.
LoadAfterQuery(env, queried) ==
    IF queried.kind = "ok"
    THEN ApplyCustomFile(env, queried.table, queried.warnings)
    ELSE IF env.debug = "raise"
    THEN LoadResult(queried.kind, EmptyTable, queried.warnings)
    ELSE ReadLocal(env, Append(queried.warnings,
                               FileWarning("QueryFileWarning", "exofile")))

\* ExoFile.load(query, debug, query_kwargs={"debug": queryDebug}).
Load(env) ==
    IF env.query THEN LoadAfterQuery(env, Query(env))
    ELSE ReadLocal(env, <<>>)

LoadNames == << <<"1", "b">>, <<"2", "b">> >>

\* A master: both objects, the period in days (masked for the second) and
\* the mass; v tells the remote master from the local exofile.
MasterTable(v) ==
    [keys |-> LoadNames, colnames |-> MergeCols,
     unit |-> [c \in Range(MergeCols) |->
                  IF c = "pl_orbper" THEN "d" ELSE NoUnit],
     rows |-> [i \in 1..Len(LoadNames) |->
                  [c \in Range(MergeCols) |->
                      IF c = "pl_orbper" /\ i = 2 THEN Masked(Rat(0, 1))
                      ELSE Present(Rat(v, 1))]]]

\* The sheet and the custom file: a row per object that gives the period,
\* the mass or both, the period in days or in a unit that is not a time.
PatchTables(v) ==
    { [keys |-> LoadNames, colnames |-> MergeCols,
       unit |-> [c \in Range(MergeCols) |->
                    IF c = "pl_orbper" THEN u ELSE NoUnit],
       rows |-> [i \in 1..Len(LoadNames) |->
                    [c \in Range(MergeCols) |->
                        IF c \in has[i] THEN Present(Rat(v + i, 1))
                        ELSE Masked(Rat(0, 1))]]] :
        u \in {"d", "m"},
        has \in [1..Len(LoadNames) ->
                    SUBSET Range(MergeCols) \ {{}}] }

LoadEnvs ==
    { [query |-> q, debug |-> d, queryDebug |-> qd, remote |-> r,
       remoteTable |-> MasterTable(7), exofile |-> x, sheet |-> s,
       customFile |-> c] :
        q \in BOOLEAN, d \in {"None", "raise"},
        qd \in {"False", "True", "raise"},
        r \in {"ok", "SSLError", "error"},
        x \in {Unreadable, Readable(MasterTable(6))},
        s \in {Unreadable} \cup {Readable(t) : t \in PatchTables(20)},
        c \in {Unreadable} \cup {Readable(t) : t \in PatchTables(30)} }

InitLoad ==
    /\ loadEnv \in LoadEnvs
    /\ loadOutcome = LoadResult("none", EmptyTable, <<>>)
    /\ IdleBut("load")

CallLoad ==
    /\ loadOutcome.kind = "none"
    /\ loadOutcome' = Load(loadEnv)
    /\ UNCHANGED loadEnv
    /\ UnchangedBut("load")

NextLoad == CallLoad

SpecLoad == InitLoad /\ [][NextLoad]_vars

\* The warning of the given kind about the given source was emitted.
Warned(kind, file) ==
    \E w \in Range(loadOutcome.warnings) : w.kind = kind /\ w.file = file

QueryFailed == loadEnv.query /\ Query(loadEnv).kind # "ok"

\* The master load has before it applies the custom file.
MasterObtained ==
    IF loadEnv.query /\ ~QueryFailed THEN Query(loadEnv).table
    ELSE loadEnv.exofile.table

HasMaster == (loadEnv.query /\ ~QueryFailed) \/ loadEnv.exofile.ok

\* With debug not "raise": a failed query is a warning and the local
\* exofile is read; an unreadable exofile is a warning and the custom file
\* is returned; load raises only when the custom file is then unreadable too.
LoadFallsBackInOrder ==
    (loadOutcome.kind # "none" /\ loadEnv.debug # "raise") =>
        /\ QueryFailed => Warned("QueryFileWarning", "exofile")
        /\ (QueryFailed /\ loadEnv.exofile.ok) =>
                /\ loadOutcome.kind = "ok"
                /\ loadOutcome.table.keys = loadEnv.exofile.table.keys
                /\ \A i \in 1..Len(LoadNames) : \A c \in Range(MergeCols) :
                        ~loadEnv.customFile.ok
                        => loadOutcome.table.rows[i][c]
                                = loadEnv.exofile.table.rows[i][c]
        /\ (~HasMaster /\ loadEnv.customFile.ok) =>
                /\ Warned("GetLocalFileWarning", "exofile")
                /\ loadOutcome.kind = "ok"
                /\ loadOutcome.table = loadEnv.customFile.table
        /\ loadOutcome.kind # "ok" <=> (~HasMaster /\ ~loadEnv.customFile.ok)

\* The custom file could not be applied to the master load had.
CustomFileFailed ==
    /\ HasMaster
    /\ \/ ~loadEnv.customFile.ok
       \/ ReplaceWith(MasterObtained, loadEnv.customFile.table).outcome # "ok"

\* With debug not "raise": when the custom file cannot be applied, a warning
\* is emitted and the master is returned as it was.
LoadKeepsMaster ==
    (loadOutcome.kind # "none" /\ loadEnv.debug # "raise"
        /\ CustomFileFailed) =>
        /\ Warned("GetLocalFileWarning", "custom file")
        /\ loadOutcome.kind = "ok"
        /\ loadOutcome.table = MasterObtained

\* C20: when debug is not "raise", load falls back through its sources in
\* order (a failed remote query: a warning, and the local exofile; an
\* unreadable exofile: a warning, and the custom file; an exception only
\* when that fails too), and a failure to apply the custom file to a master
\* is a warning and returns the master without any of the custom values.
C20_LoadFallsBackAndKeepsMaster == LoadFallsBackInOrder /\ LoadKeepsMaster


(***************************************************************************)
(* Claims about the units of a merge                                       *)
(***************************************************************************)
WarningsAbout(c) ==
    {mergeWarnings[i].kind : i \in {k \in 1..Len(mergeWarnings) :
                                        mergeWarnings[k].col = c}}

\* The cell the last present source cell of column c leaves in row p of the
\* target: the source value times factor.
WrittenTimes(c, factor) ==
    \A r \in 1..NRows(source), p \in 1..NRows(targetPre) :
        (/\ ResolvesTo(r, p)
         /\ source.rows[r][c].present
         /\ \A q \in (r + 1)..NRows(source) :
                ResolvesTo(q, p) => ~source.rows[q][c].present)
            => target.rows[p][c]
                   = Present(RatMul(source.rows[r][c].value, factor))

Convertible(from, to) == {from, to} \subseteq {"d", "s"}

\* C21: after a call of replace_with, for every shared column: a source
\* column without unit against a target column with one gives a
\* NoUnitsWarning and the values are written as they are; two different
\* units give a ColUnitsWarning and the values are written converted from
\* the unit of the source to that of the target; equal units give no
\* diagnostic; and a conversion between incompatible units, once a present
\* cell asks for it, ends the call with the conversion error.
C21_UnitsReconciled ==
    mergeCalls >= 1 =>
        \A c \in SharedCols :
            LET from == source.unit[c]
                to == targetPre.unit[c]
            IN  /\ (from = NoUnit /\ to # NoUnit) =>
                        /\ WarningsAbout(c) = {"NoUnitsWarning"}
                        /\ mergeOutcome = "ok" => WrittenTimes(c, <<1, 1>>)
                /\ (from # NoUnit /\ to # NoUnit /\ from # to) =>
                        /\ WarningsAbout(c) = {"ColUnitsWarning"}
                        /\ (from = "d" /\ to = "s" /\ mergeOutcome = "ok")
                               => WrittenTimes(c, <<86400, 1>>)
                        /\ (from = "s" /\ to = "d" /\ mergeOutcome = "ok")
                               => WrittenTimes(c, <<1, 86400>>)
                        /\ (/\ ~Convertible(from, to)
                            /\ GetIndex(targetPre.keys, source.keys).kind
                                    = "ok"
                            /\ \E r \in 1..NRows(source) :
                                    source.rows[r][c].present)
                               => mergeOutcome = "UnitConversionError"
                /\ from = to => WarningsAbout(c) = {}

\* C21: a call has written a period without unit as it is into a column in
\* seconds, under a NoUnitsWarning.
C21_Witness ==
    /\ mergeCalls = 1
    /\ mergeOutcome = "ok"
    /\ source.unit["pl_orbper"] = NoUnit
    /\ targetPre.unit["pl_orbper"] = "s"
    /\ WarningsAbout("pl_orbper") = {"NoUnitsWarning"}
    /\ \E r \in 1..NRows(source), p \in 1..NRows(targetPre) :
           /\ ResolvesTo(r, p)
           /\ source.rows[r]["pl_orbper"].present
           /\ ~targetPre.rows[p]["pl_orbper"].present
           /\ target.rows[p]["pl_orbper"] = source.rows[r]["pl_orbper"]


(***************************************************************************)
(* The script update_file: update, write, update(False), write.            *)
(***************************************************************************)
\* ExoFile.update as the script sees it: the query of the archive raises,
\* or the call goes on as Update.
UpdateRun(args, fetch) ==
    IF fetch = "ok" THEN Update(args) ELSE Raises("ConnectionError")

\* A plausible slip: the script goes on after an update that raised.
ScriptGoesOn(outcome, line) == line

\* An exception of update ends the script; else the next line runs.
ScriptAfter(outcome, line) ==
    IF outcome.kind = "ok" THEN line ELSE "raised"

\* new.write(path, overwrite=True)
Write(store, path, outcome) == [store EXCEPT ![path] = outcome.colnames]

InitScript ==
    /\ scriptPc = "line 9"
    /\ scriptNew = NotCalled
    /\ files = NoFiles
    /\ IdleBut("script")

\* new = ExoFile.update()
ScriptUpdate ==
    /\ scriptPc = "line 9"
    /\ \E fetch \in {"ok", "error"}, c \in ColumnLists :
          LET new == UpdateRun([called |-> TRUE, useComposite |-> TRUE,
                                colnames |-> c, pcCols |-> c], fetch)
          IN  /\ scriptNew' = [scriptNew EXCEPT !.main = new]
              /\ scriptPc' = ScriptAfter(new, "line 10")
    /\ UNCHANGED files
    /\ UnchangedBut("script")

\* new.write(PATH_TO_FILE, overwrite=True)
ScriptWrite ==
    /\ scriptPc = "line 10"
    /\ files' = Write(files, "main", scriptNew.main)
    /\ scriptPc' = "line 11"
    /\ UNCHANGED scriptNew
    /\ UnchangedBut("script")

\* new_alt = ExoFile.update(use_composite_archive=False)
ScriptUpdateAlt ==
    /\ scriptPc = "line 11"
    /\ \E fetch \in {"ok", "error"}, c \in ColumnLists, p \in ColumnLists :
          LET new == UpdateRun([called |-> TRUE, useComposite |-> FALSE,
                                colnames |-> c, pcCols |-> p], fetch)
          IN  /\ scriptNew' = [scriptNew EXCEPT !.alt = new]
              /\ scriptPc' = ScriptAfter(new, "line 12")
    /\ UNCHANGED files
    /\ UnchangedBut("script")

\* new_alt.write(PATH_TO_FILE_ALT, overwrite=True)
ScriptWriteAlt ==
    /\ scriptPc = "line 12"
    /\ files' = Write(files, "alt", scriptNew.alt)
    /\ scriptPc' = "done"
    /\ UNCHANGED scriptNew
    /\ UnchangedBut("script")

NextScript ==
    ScriptUpdate \/ ScriptWrite \/ ScriptUpdateAlt \/ ScriptWriteAlt

SpecScript == InitScript /\ [][NextScript]_vars

\* C22: an output file is written only after the call of update that made
\* its table has returned: any file that is no longer the previous one holds
\* the table that call returned, and when update raised, the write of that
\* output is not executed and the file is the previous one.
C22_WrittenOnlyAfterUpdateReturned ==
    \A out \in {"main", "alt"} :
        /\ files[out] # PreviousFile =>
                /\ scriptNew[out].kind = "ok"
                /\ files[out] = scriptNew[out].colnames
        /\ scriptNew[out].kind \notin {"ok", "none"} =>
                /\ files[out] = PreviousFile
                /\ scriptPc = "raised"

\* C22: the first file is written, the second update has raised on a
\* reference column the reduced table lacks, and the second file is the
\* previous one.
C22_Witness ==
    /\ scriptPc = "raised"
    /\ files.main # PreviousFile
    /\ scriptNew.alt.kind = "KeyError"
    /\ files.alt = PreviousFile


(***************************************************************************)
(* Claims on the order and the shape of the reduction                      *)
(***************************************************************************)
\* The rows of object k in the pool tbl.
RowsOf(tbl, k) == {tbl.rows[i] : i \in {j \in 1..Len(tbl.keys) :
                                            tbl.keys[j] = k}}

\* C23: in every pass, for each object of the pool, exactly one of its
\* remaining candidates leaves the pool, no remaining candidate of the
\* object has a strictly smaller sort key than it, and it is the row folded:
\* every cell masked in the accumulator and present in it takes its value.
C23_ConsumedInSortOrder ==
    [][passes' = passes + 1 =>
        \A k \in Objects(grouped) :
            \E taken \in RowsOf(grouped, k) :
                /\ RowsOf(grouped', k) = RowsOf(grouped, k) \ {taken}
                /\ \A other \in RowsOf(grouped, k) :
                        ~LexLess(other, taken, SortKeys)
                /\ \A i \in 1..Len(psTbl.keys) : \A c \in Range(ComposeCols) :
                        (/\ psTbl.keys[i] = k
                         /\ ~psTbl.rows[i][c].present
                         /\ taken[c].present)
                            => psTbl'.rows[i][c] = taken[c]]_vars

\* C23: a pass has filled the mass of an object from the candidate of the
\* smallest key, the candidate of a larger key, that had another mass,
\* staying in the pool.
C23_Witness ==
    /\ passes = 1
    /\ \E i \in 1..Len(psTbl.keys) :
        \E taken \in RowsOf(poolInit, psTbl.keys[i]) :
            \E kept \in RowsOf(grouped, psTbl.keys[i]) :
                /\ ~psDefault.rows[i]["pl_bmasse"].present
                /\ taken \notin RowsOf(grouped, psTbl.keys[i])
                /\ LexLess(taken, kept, SortKeys)
                /\ kept["pl_bmasse"].present
                /\ taken["pl_bmasse"].present
                /\ psTbl.rows[i]["pl_bmasse"] = taken["pl_bmasse"]


(***************************************************************************)
(* Claims about the renaming loop and the reference times                  *)
(***************************************************************************)
RuntimeWarnings ==
    SelectSeq(formatOutcome.warnings, LAMBDA w : w.kind = "RuntimeWarning")

\* The kept pairs whose old column the input lacks, the exclusion list
\* left out.
MissingPairs ==
    SelectSeq(LabelDf(mapping),
              LAMBDA r : /\ r.ps \notin MISSING_COLS
                         /\ r.ps \notin Range(psRaw.colnames))

\* C24: a kept pair whose old column the input lacks gives a warning and the
\* loop goes on: after the call there is one warning per such pair, in the
\* order of the pairs, and none for a label of the exclusion list or for a
\* column the input has.
C24_MissingColumnWarnsAndGoesOn ==
    formatOutcome.kind # "none" =>
        RuntimeWarnings =
            [i \in 1..Len(MissingPairs) |->
                [kind |-> "RuntimeWarning", label |-> MissingPairs[i].ps]]

\* C24: a call has returned after warning of two missing columns, with a
\* label of the exclusion list in the mapping between them.
C24_Witness ==
    /\ formatOutcome.kind = "ok"
    /\ Len(RuntimeWarnings) = 2
    /\ \E i \in 1..Len(mapping) : mapping[i].ps \in MISSING_COLS
    /\ \A c \in MISSING_COLS : c \notin Range(psRaw.colnames)


\* C25: after format_ps_table the table has the columns
\* pl_tranmid_systemref and pl_orbtper_systemref, and in every row each of
\* them is the cell of pl_tsystemref, which is the one the input had.
C25_SystemrefDuplicated ==
    formatOutcome.kind = "ok" =>
        LET out == formatOutcome.table
            tsys == <<"pl", "t", "systemref">>
        IN  \A copy \in {<<"pl", "tranmid", "systemref">>,
                         <<"pl", "orbtper", "systemref">>} :
                /\ copy \in Range(out.colnames)
                /\ tsys \in Range(out.colnames)
                /\ \A i \in 1..Len(out.rows) :
                        /\ out.rows[i][copy] = out.rows[i][tsys]
                        /\ out.rows[i][tsys] = psRaw.rows[i][tsys]

\* C25: a call has returned a table of two rows that has the two copies,
\* which the input had not.
C25_Witness ==
    /\ formatOutcome.kind = "ok"
    /\ Len(formatOutcome.table.rows) = 2
    /\ <<"pl", "tranmid", "systemref">> \notin Range(psRaw.colnames)
    /\ <<"pl", "orbtper", "systemref">> \in Range(formatOutcome.table.colnames)
    /\ formatOutcome.table.rows[2][<<"pl", "tranmid", "systemref">>]
            = Present("BJD-TDB")


\* C26: from the entry of the loop on, after every pass, the accumulator has
\* the column names of the default rows (no today_ column of the candidates)
\* and one row for each object of the default rows and for no other.
C26_AccumulatorKeepsItsShape ==
    composePc \in {"loop", "returned"} =>
        /\ psTbl.colnames = psDefault.colnames
        /\ \A c \in Range(SortKeys) : c \notin Range(psTbl.colnames)
        /\ Objects(psTbl) = Objects(psDefault)
        /\ Len(psTbl.keys) = Len(psDefault.keys)

\* C26: a pass has met a candidate of an object that has no default row,
\* and has filled a cell from a candidate of an object that has one.
C26_Witness ==
    /\ passes = 1
    /\ \E k \in Objects(poolInit) : k \notin Objects(psTbl)
    /\ \E k \in Objects(poolInit) : k \in Objects(psTbl)
    /\ Range(SortKeys) \subseteq Range(poolInit.colnames)
    /\ psTbl # psDefault

\* The row of the accumulator tbl for object k.
RowFor(tbl, k) == tbl.rows[RowAt(tbl, k)]

Filled(tbl) ==
    Cardinality({<<i, c>> \in (1..Len(tbl.keys)) \X Range(ComposeCols) :
                    tbl.rows[i][c].present})

\* C27: a pass leaves every present cell of the accumulator as it is and
\* masks none, so the cells filled never become fewer; and a cell the
\* reduction has filled holds the value of the first candidate of its
\* object, in the order of consumption, that has the cell present.
C27_PresentCellsStable ==
    [][passes' = passes + 1 =>
        /\ \A k \in Objects(psTbl) : \A c \in Range(ComposeCols) :
                RowFor(psTbl, k)[c].present
                    => RowFor(psTbl', k)[c] = RowFor(psTbl, k)[c]
        /\ Filled(psTbl') >= Filled(psTbl)
        /\ \A k \in Objects(psTbl) : \A c \in Range(ComposeCols) :
                (~RowFor(psTbl, k)[c].present /\ RowFor(psTbl', k)[c].present)
                    => \E j \in 1..Len(poolInit.keys) :
                          /\ poolInit.keys[j] = k
                          /\ poolInit.rows[j][c] = RowFor(psTbl', k)[c]
                          /\ \A h \in 1..(j - 1) :
                                poolInit.keys[h] = k
                                    => ~poolInit.rows[h][c].present]_vars

\* C27: the second pass has filled a cell and met a present cell, filled by
\* the first from a candidate with another value, which it left as it was.
C27_Witness ==
    /\ passes = 2
    /\ \E k \in Objects(psTbl) :
        /\ ~RowFor(psDefault, k)["pl_orbper"].present
        /\ ~RowFor(psDefault, k)["pl_bmasse"].present
        /\ RowFor(psTbl, k)["pl_orbper"].present
        /\ RowFor(psTbl, k)["pl_bmasse"].present
        /\ \E h, j \in 1..Len(poolInit.keys) :
            /\ h < j
            /\ poolInit.keys[h] = k /\ poolInit.keys[j] = k
            /\ poolInit.rows[h]["pl_orbper"] = RowFor(psTbl, k)["pl_orbper"]
            /\ ~poolInit.rows[h]["pl_bmasse"].present
            /\ poolInit.rows[j]["pl_orbper"].present
            /\ poolInit.rows[j]["pl_bmasse"] = RowFor(psTbl, k)["pl_bmasse"]


(***************************************************************************)
(* The legacy MasterFile.update: the loop that completes the value table   *)
(* and, beside it, the reference table.  A reference is a number from 100  *)
(* on; the links of the candidates are present (get_refname_from_link      *)
(* raises on a masked one).                                                *)
(***************************************************************************)
\* A plausible slip: the mask of self is not given to the table.
MkRefTableUnmasked(tbl, refCol) ==
    [keys |-> tbl.keys, colnames |-> tbl.colnames,
     rows |-> [i \in 1..Len(tbl.rows) |->
                  [c \in Range(tbl.colnames) |->
                      Present(tbl.rows[i][refCol].value)]]]

\* mk_ref_table(ref_col): the structure and the mask of self, the reference
\* of the row in every column.
MkRefTable(tbl, refCol) ==
    [keys |-> tbl.keys, colnames |-> tbl.colnames,
     rows |-> [i \in 1..Len(tbl.rows) |->
                  [c \in Range(tbl.colnames) |->
                      [present |-> tbl.rows[i][c].present,
                       value |-> tbl.rows[i][refCol].value]]]]

\* tbl with one more column, holding the reference first + i at row i.
WithReference(tbl, name, first) ==
    [keys |-> tbl.keys, colnames |-> Append(tbl.colnames, name),
     rows |-> [i \in 1..Len(tbl.rows) |->
                  [c \in Range(tbl.colnames) \cup {name} |->
                      IF c = name THEN Present(Rat(first + i, 1))
                      ELSE tbl.rows[i][c]]]]

\* The confirmed-planet table, with the reference of each row.
LegacyDefaults ==
    {WithReference(t, "pl_def_refname", 100) : t \in DefaultTables}

\* The extended table without its mpl_def rows, with the link of each row.
LegacyPools ==
    {WithReference(t, "mpl_reflink", 200) : t \in PoolTables}

InitLegacy ==
    /\ legacyNew = NoTable
    /\ refTable = NoTable
    /\ legacyGrouped = NoTable
    /\ legacyPc = "start"
    /\ IdleBut("legacy")

\* From the two queries to the first test of the loop.
LegacyEnter ==
    /\ legacyPc = "start"
    /\ \E new \in LegacyDefaults, pool \in LegacyPools :
        \E order \in Orders(Len(pool.keys)) :
            /\ legacyNew' = new
            /\ refTable' = MkRefTable(new, "pl_def_refname")
            /\ legacyGrouped' =
                    GroupBy(Sort(TakeRows(pool, order), SortKeys))
    /\ legacyPc' = "loop"
    /\ UnchangedBut("legacy")

\* One pass of the loop: the first candidate of each object completes the
\* value table, and its reference table completes the reference table.
LegacyPass ==
    /\ legacyPc = "loop"
    /\ Len(legacyGrouped.keys) > 1
    /\ \E regrouped \in {GroupBy(legacyGrouped)} :
        \E index \in {GroupIndices(regrouped)} :
            \E first \in {TakeRows(regrouped, index)} :
                /\ legacyNew' = Complete(legacyNew, first, "left", FALSE)
                /\ refTable' = Complete(refTable,
                                        MkRefTable(first, "mpl_reflink"),
                                        "left", FALSE)
                /\ legacyGrouped' = RemoveRows(regrouped, index)
    /\ UNCHANGED legacyPc
    /\ UnchangedBut("legacy")

\* The test of the loop fails: update returns new and ref_table.
LegacyReturn ==
    /\ legacyPc = "loop"
    /\ Len(legacyGrouped.keys) <= 1
    /\ legacyPc' = "returned"
    /\ UNCHANGED <<legacyNew, refTable, legacyGrouped>>
    /\ UnchangedBut("legacy")

NextLegacy == LegacyEnter \/ LegacyPass \/ LegacyReturn

SpecLegacy == InitLegacy /\ [][NextLegacy]_vars

\* C28: from the entry of the loop on, after every pass, the reference
\* table has the object keys of the value table, and in every row and
\* every column the two share the reference cell is present exactly when
\* the value cell is.
C28_ReferenceTableParallel ==
    legacyPc \in {"loop", "returned"} =>
        /\ refTable.keys = legacyNew.keys
        /\ refTable.colnames = legacyNew.colnames
        /\ \A i \in 1..Len(legacyNew.keys) :
            \A c \in Range(legacyNew.colnames) \cap Range(refTable.colnames) :
                refTable.rows[i][c].present = legacyNew.rows[i][c].present

\* C28: the loop has returned with a value filled from a candidate and the
\* reference of that candidate beside it, another cell of the row being
\* masked in both tables.
C28_Witness ==
    /\ legacyPc = "returned"
    /\ \E i \in 1..Len(legacyNew.keys) :
        /\ legacyNew.rows[i]["pl_orbper"].present
        /\ legacyNew.rows[i]["pl_orbper"].value # Rat(7, 1)
        /\ RatLess(Rat(200, 1), refTable.rows[i]["pl_orbper"].value)
        /\ ~legacyNew.rows[i]["pl_bmasse"].present
        /\ ~refTable.rows[i]["pl_bmasse"].present


\* Every step of load succeeded: the query was asked for and answered, the
\* sheet and the custom file were read, and nothing was given up on with a
\* warning.
LoadAllSucceeded ==
    /\ loadOutcome.kind = "ok"
    /\ loadEnv.query /\ loadEnv.remote = "ok"
    /\ loadEnv.sheet.ok /\ loadEnv.customFile.ok
    /\ \A w \in Range(loadOutcome.warnings) :
            w.kind \notin {"QueryFileWarning", "GetLocalFileWarning"}

\* C29: when every step of load succeeds, a cell present in the custom file
\* holds the custom file's value in the returned table, and a cell present
\* in the sheet and masked in the custom file holds the sheet's value,
\* whatever the remote master held there.
C29_CustomOverSheetOverMaster ==
    LoadAllSucceeded =>
        \A k \in Range(loadEnv.customFile.table.keys), c \in Range(MergeCols) :
            LET custom == RowFor(loadEnv.customFile.table, k)[c]
                sheet == RowFor(loadEnv.sheet.table, k)[c]
                out == RowFor(loadOutcome.table, k)[c]
            IN  /\ custom.present =>
                        out.present /\ out.value = custom.value
                /\ (~custom.present /\ sheet.present) =>
                        out.present /\ out.value = sheet.value

\* C29: load returned after every step succeeded; for one object the custom
\* file and the sheet both gave the mass and the returned table holds the
\* custom file's, and the sheet alone gave the period, masked in the remote
\* master, and the returned table holds the sheet's.
C29_Witness ==
    /\ LoadAllSucceeded
    /\ LET k == LoadNames[2]
           custom == RowFor(loadEnv.customFile.table, k)
           sheet == RowFor(loadEnv.sheet.table, k)
           out == RowFor(loadOutcome.table, k)
       IN  /\ custom["pl_bmasse"].present /\ sheet["pl_bmasse"].present
           /\ out["pl_bmasse"] = custom["pl_bmasse"]
           /\ ~custom["pl_orbper"].present /\ sheet["pl_orbper"].present
           /\ ~RowFor(loadEnv.remoteTable, k)["pl_orbper"].present
           /\ out["pl_orbper"].present
           /\ out["pl_orbper"].value = sheet["pl_orbper"].value


\* C30: whenever replace_with raises, the table has the rows, the values
\* and the masks it had before the call.
C30_FailureLeavesTableUntouched ==
    (mergeCalls >= 1 /\ mergeOutcome # "ok") => target = targetPre

====
